---- MODULE Spec2Model ----
(***************************************************************************)
(* simon-poc-territory.                                                    *)
(*                                                                         *)
(* Pure functions: Douglas-Peucker simplification and the feature          *)
(* processor (scripts' simplifyLine / processRing / processFeature),       *)
(* monotone-chain convex hull, ring centroid / polygon center, bounding    *)
(* boxes and the feature converters (utils/geometry.ts), boundsIntersect   *)
(* (hooks/useViewportPolygons.ts).  Each specification draws the arguments *)
(* of one call from a bounded set, applies the function as the code        *)
(* computes it and records arguments and return value in the state:        *)
(*     pc = "idle"  --Begin, Push-->  pc = "args"  --Call-->  pc = "done"  *)
(*                  --Return-->  pc = "idle"                               *)
(*                                                                         *)
(* Hooks: useViewportPolygons (SpecViewport) and useProvinceData           *)
(* (SpecProvince) are state machines of their React state, refs, timers    *)
(* and requests in flight; one action per render, handler or callback.     *)
(*                                                                         *)
(* Pages: the map page (MapPage, FSAMap, MapFsaSelector, LduLayer) and the *)
(* segments page (CreateSegmentForm, SegmentsList) with the segments that  *)
(* useSegments stores (SpecPages); one action per handler.                 *)
(*                                                                         *)
(* Numbers.  Coordinates are integers of a grid.  Values the code computes *)
(* with a division or a square root are kept exact: a distance is carried  *)
(* as its square, a rational n/d; a quotient is a rational [n, d] in       *)
(* lowest terms, with NaN and Infinity for x/0 as IEEE-754 gives them.     *)
(***************************************************************************)
EXTENDS Integers, Sequences, FiniteSets, TLC

\* a call of one of the pure functions
VARIABLES pc, fn, args, ret

\* an instance of the hook useViewportPolygons, the map it listens to, the
\* browser's pending timers and idle callbacks; hist records what happened
VARIABLES mounted, map, viewport, viewportPadding, polygonSet, mapBounds,
          isUpdating, debounceRef, listenerRef, timers, idle,
          visiblePolygons, hist

\* an instance of the hook useProvinceData, the module's provinceCache and
\* the runs of fetchData still in flight; provHist records what happened
VARIABLES selectedProvince, provinceCache, provincePolygons, isLoading, error,
          abortControllerRef, effectCleanup, requests, provHist

\* the page the router shows, the state of MapPage (the code of the selected
\* province, the selected FSA and LDUs), the state of CreateSegmentForm, and
\* the segments of useSegments / localStorage; pageHist records what happened
VARIABLES route, provinceCode, selectedFsaId, selectedLdus, form, segments,
          pageHist

callVars == <<pc, fn, args, ret>>

viewVars == <<mounted, map, viewport, viewportPadding, polygonSet, mapBounds,
              isUpdating, debounceRef, listenerRef, timers, idle,
              visiblePolygons, hist>>

provVars == <<selectedProvince, provinceCache, provincePolygons, isLoading,
              error, abortControllerRef, effectCleanup, requests, provHist>>

pageVars == <<route, provinceCode, selectedFsaId, selectedLdus, form,
              segments, pageHist>>

hookVars == <<viewVars, provVars, pageVars>>

\* what the hook useViewportPolygons leaves alone
notView == <<callVars, provVars, pageVars>>

\* what the hook useProvinceData leaves alone
notProvince == <<callVars, viewVars, pageVars>>

\* what the handlers of the pages leave alone
notPages == <<callVars, viewVars, provVars>>

vars == <<callVars, hookVars>>

(***************************************************************************)
(* Bounds of the model.                                                    *)
(***************************************************************************)
\* polyline points are [x, y] with x in 0..MaxX, y in 0..MaxY
MaxX == 2
MaxY == 1
\* longest polyline handed to simplifyLine / processRing
MaxLine == 4
\* tolerances are 0..MaxTol
MaxTol == 1

Abs(x) == IF x < 0 THEN -x ELSE x

XY == {<<x, y>> : x \in 0..MaxX, y \in 0..MaxY}

Lengths(n) == 0..n

Tolerances == 0..MaxTol

(***************************************************************************)
(* scripts: perpendicularDistance.  The result is the SQUARE of the        *)
(* distance the code returns, as the exact rational n/d (d > 0):           *)
(*   lineStart = lineEnd :  sqrt((x-x1)^2 + (y-y1)^2)        -> n/1        *)
(*   otherwise           :  |dy*x - dx*y + x2*y1 - y2*x1|                  *)
(*                            / sqrt(dx^2 + dy^2)            -> num^2/den  *)
(***************************************************************************)
perpendicularDistance(point, lineStart, lineEnd) ==
  LET x  == point[1]
      y  == point[2]
      x1 == lineStart[1]
      y1 == lineStart[2]
      x2 == lineEnd[1]
      y2 == lineEnd[2]
      dx == x2 - x1
      dy == y2 - y1
  IN  IF dx = 0 /\ dy = 0
      THEN [n |-> (x - x1) * (x - x1) + (y - y1) * (y - y1), d |-> 1]
      ELSE LET numerator == Abs(dy * x - dx * y + x2 * y1 - y2 * x1)
           IN  [n |-> numerator * numerator, d |-> dx * dx + dy * dy]

\* distance > maxDistance, on squared distances (both are >= 0)
DistGt(a, b) == a.n * b.d > b.n * a.d

\* a slip in the comparison: twice the tolerance is allowed
DistGtTol_doubled(a, tolerance) ==
  \/ tolerance < 0
  \/ a.n > 4 * tolerance * tolerance * a.d

\* maxDistance > tolerance: a distance is >= 0, so it exceeds every negative
\* tolerance; otherwise compare the squares
DistGtTol(a, tolerance) ==
  \/ tolerance < 0
  \/ a.n > tolerance * tolerance * a.d

ZeroDist == [n |-> 0, d |-> 1]

\* the scan loop of simplifyLine: for (i = 1; i < points.length - 1; i++),
\* i and maxIndex are the code's 0-based indices
RECURSIVE ScanMax(_, _, _, _)
ScanMax(points, i, maxDistance, maxIndex) ==
  IF i >= Len(points) - 1
  THEN [maxDistance |-> maxDistance, maxIndex |-> maxIndex]
  ELSE LET distance == perpendicularDistance(points[i + 1], points[1],
                                             points[Len(points)])
       IN  IF DistGt(distance, maxDistance)
           THEN ScanMax(points, i + 1, distance, i)
           ELSE ScanMax(points, i + 1, maxDistance, maxIndex)

\* points.slice(from, to) with 0-based from (inclusive) and to (exclusive)
Slice(s, from, to) == SubSeq(s, from + 1, to)

\* s.slice(0, -1)
DropLast(s) == SubSeq(s, 1, Len(s) - 1)

\* a slip in the junction handling: the split point is kept twice
RECURSIVE simplifyLine_keepJunction(_, _)
simplifyLine_keepJunction(points, tolerance) ==
  IF Len(points) <= 2 THEN points
  ELSE LET m == ScanMax(points, 1, ZeroDist, 0)
       IN  IF DistGtTol(m.maxDistance, tolerance)
           THEN simplifyLine_keepJunction(Slice(points, 0, m.maxIndex + 1), tolerance)
                \o simplifyLine_keepJunction(Slice(points, m.maxIndex, Len(points)), tolerance)
           ELSE <<points[1], points[Len(points)]>>

\* scripts: simplifyLine (Douglas-Peucker)
RECURSIVE simplifyLine(_, _)
simplifyLine(points, tolerance) ==
  IF Len(points) <= 2 THEN points
  ELSE LET m == ScanMax(points, 1, ZeroDist, 0)
       IN  IF DistGtTol(m.maxDistance, tolerance)
           THEN LET left  == simplifyLine(Slice(points, 0, m.maxIndex + 1), tolerance)
                    right == simplifyLine(Slice(points, m.maxIndex, Len(points)), tolerance)
                IN  DropLast(left) \o right
           ELSE <<points[1], points[Len(points)]>>

\* a slip in processRing: the tolerance is passed through to the simplifier
processRing_passThrough(ring, tolerance) == simplifyLine(ring, tolerance)

\* scripts: processRing, the local `simplified` (the ring before its points
\* are handed one by one to convertCoord)
processRingSimplified(ring, tolerance) ==
  IF tolerance > 0 THEN simplifyLine(ring, tolerance) ELSE ring

(***************************************************************************)
(* utils/geometry.ts: calculateConvexHull (monotone chain).                *)
(* Points are records [lat, lng] on the grid 0..MaxLat x 0..MaxLng.        *)
(***************************************************************************)
MaxLat == 2
MaxLng == 2
\* most points handed to calculateConvexHull
MaxHullPoints == 4

LatLng == [lat : 0..MaxLat, lng : 0..MaxLng]

\* the comparator of the sort: a.lat === b.lat ? a.lng - b.lng : a.lat - b.lat
Compare(a, b) == IF a.lat = b.lat THEN a.lng - b.lng ELSE a.lat - b.lat

\* [...points].sort(Compare): Array.prototype.sort is stable, so p goes
\* behind the elements that compare equal to it
RECURSIVE Insert(_, _)
Insert(sorted, p) ==
  IF sorted = <<>> THEN <<p>>
  ELSE IF Compare(p, Head(sorted)) < 0 THEN <<p>> \o sorted
  ELSE <<Head(sorted)>> \o Insert(Tail(sorted), p)

RECURSIVE SortPoints(_)
SortPoints(points) ==
  IF points = <<>> THEN <<>>
  ELSE Insert(SortPoints(DropLast(points)), points[Len(points)])

\* a sort of the caller's array in place
pointsAfterSort_inPlace(points) ==
  IF Len(points) < 3 THEN points ELSE SortPoints(points)

\* the caller's array after [...points].sort(...): the copy is sorted, the
\* array itself is not touched (lower.pop() works on lower)
pointsAfterSort(points) == points

crossProduct(o, a, b) ==
  (a.lat - o.lat) * (b.lng - o.lng) - (a.lng - o.lng) * (b.lat - o.lat)

\* a slip in the pop condition: collinear points are kept
PopCondition_strict(o, a, p) == crossProduct(o, a, p) < 0

\* the pop condition of both chains: crossProduct(...) <= 0
PopCondition(o, a, p) == crossProduct(o, a, p) <= 0

\* while (chain.length >= 2 && PopCondition(...)) chain.pop()
RECURSIVE PopWhile(_, _)
PopWhile(chain, p) ==
  IF Len(chain) >= 2 /\ PopCondition(chain[Len(chain) - 1], chain[Len(chain)], p)
  THEN PopWhile(DropLast(chain), p)
  ELSE chain

\* for (const p of order) { while (...) chain.pop(); chain.push(p) }
RECURSIVE BuildChain(_, _)
BuildChain(order, chain) ==
  IF order = <<>> THEN chain
  ELSE BuildChain(Tail(order), Append(PopWhile(chain, Head(order)), Head(order)))

Reverse(s) == [i \in 1..Len(s) |-> s[Len(s) + 1 - i]]

\* a slip in the upper chain: sortedPoints is walked forwards again
calculateConvexHull_noReverse(points) ==
  IF Len(points) < 3 THEN points
  ELSE LET sortedPoints == SortPoints(points)
           lower == BuildChain(sortedPoints, <<>>)
           upper == BuildChain(sortedPoints, <<>>)
       IN  DropLast(lower) \o upper

calculateConvexHull(points) ==
  IF Len(points) < 3 THEN points
  ELSE LET sortedPoints == SortPoints(points)
           lower == BuildChain(sortedPoints, <<>>)
           upper == BuildChain(Reverse(sortedPoints), <<>>)
       IN  DropLast(lower) \o upper

(***************************************************************************)
(* Numbers of the centroid code.  A quotient a / b of two integers is the  *)
(* exact rational [n, d] in lowest terms with d > 0; a division by zero    *)
(* gives what IEEE-754 gives: NaN (0/0) as [0, 0], +Infinity and -Infinity *)
(* as [1, 0] and [-1, 0].                                                  *)
(***************************************************************************)
RECURSIVE GCD(_, _)
GCD(a, b) == IF b = 0 THEN a ELSE GCD(b, a % b)

Sign(x) == IF x > 0 THEN 1 ELSE IF x < 0 THEN -1 ELSE 0

Div(a, b) ==
  IF b = 0 THEN [n |-> Sign(a), d |-> 0]
  ELSE LET g == GCD(Abs(a), Abs(b))
       IN  [n |-> Sign(b) * (a \div g), d |-> Abs(b) \div g]

Num(a) == [n |-> a, d |-> 1]

IsFinite(q) == q.d # 0

\* q > r for finite q, r
RatGt(q, r) == q.n * r.d > r.n * q.d

(***************************************************************************)
(* utils/geometry.ts: calculateRingCentroid.                               *)
(* A ring is a sequence of [lat, lng] grid points; `scale` is the number   *)
(* of grid steps per coordinate unit (a grid point k stands for the        *)
(* coordinate k / scale), so that rings both far above and below the       *)
(* 1e-10 area threshold are on the grid.  Centroid and area are returned   *)
(* in grid units.                                                          *)
(***************************************************************************)
\* 1e-10 = 1 / EpsRootInv^2
EpsRootInv == 100000

Scales == {1, EpsRootInv}

\* area < 1e-10 where area = |signedArea| = sumAbs / 2 grid units^2
\*   <=>  sumAbs / (2 * scale^2) < 1 / EpsRootInv^2
\*   <=>  sumAbs * q^2 < 2                  with q = EpsRootInv / scale >= 1
\*   <=>  sumAbs = 0 \/ (q = 1 /\ sumAbs < 2)
AreaBelowEps(sumAbs, scale) ==
  LET q == EpsRootInv \div scale
  IN  sumAbs = 0 \/ (q = 1 /\ sumAbs < 2)

\* ring.reduce((sum, p) => sum + p.lat, 0) and the same for lng
RECURSIVE SumLat(_)
SumLat(ring) == IF ring = <<>> THEN 0 ELSE Head(ring).lat + SumLat(Tail(ring))

RECURSIVE SumLng(_)
SumLng(ring) == IF ring = <<>> THEN 0 ELSE Head(ring).lng + SumLng(Tail(ring))

\* the fallback of both degenerate branches: the mean of the points, area 0
MeanFallback(ring) ==
  LET n == Len(ring)
  IN  [centroid |-> [lat |-> Div(SumLat(ring), n), lng |-> Div(SumLng(ring), n)],
       area |-> Num(0)]

\* a slip in the loop: the edge from the last point back to the first is
\* left out (next = ring[i + 1], i < n - 1)
RECURSIVE Shoelace_noWrap(_, _, _)
Shoelace_noWrap(ring, i, acc) ==
  IF i >= Len(ring) - 1 THEN acc
  ELSE LET current == ring[i + 1]
           next    == ring[i + 2]
           cross   == current.lng * next.lat - next.lng * current.lat
       IN  Shoelace_noWrap(ring, i + 1,
                    [signedArea  |-> acc.signedArea + cross,
                     centroidLat |-> acc.centroidLat + (current.lat + next.lat) * cross,
                     centroidLng |-> acc.centroidLng + (current.lng + next.lng) * cross])

\* the shoelace loop: for (i = 0; i < n; i++), i 0-based; signedArea is the
\* running sum of the cross products (before signedArea *= 0.5)
RECURSIVE Shoelace(_, _, _)
Shoelace(ring, i, acc) ==
  IF i >= Len(ring) THEN acc
  ELSE LET current == ring[i + 1]
           next    == ring[((i + 1) % Len(ring)) + 1]
           cross   == current.lng * next.lat - next.lng * current.lat
       IN  Shoelace(ring, i + 1,
                    [signedArea  |-> acc.signedArea + cross,
                     centroidLat |-> acc.centroidLat + (current.lat + next.lat) * cross,
                     centroidLng |-> acc.centroidLng + (current.lng + next.lng) * cross])

\* a slip in the area: Math.abs forgotten, so that area = signedArea (a
\* negative area is below the threshold)
calculateRingCentroid_signedArea(ring, scale) ==
  IF Len(ring) < 3 THEN MeanFallback(ring)
  ELSE LET acc == Shoelace(ring, 0, [signedArea |-> 0, centroidLat |-> 0, centroidLng |-> 0])
       IN  IF acc.signedArea < 0 \/ AreaBelowEps(acc.signedArea, scale)
           THEN MeanFallback(ring)
           ELSE [centroid |-> [lat |-> Div(acc.centroidLat, 3 * acc.signedArea),
                               lng |-> Div(acc.centroidLng, 3 * acc.signedArea)],
                 area |-> Div(acc.signedArea, 2)]

\* signedArea = 0.5 * sum, area = |signedArea|, factor = 1 / (6 * signedArea):
\* centroid = centroidLat / (3 * sum), centroidLng / (3 * sum)
calculateRingCentroid(ring, scale) ==
  IF Len(ring) < 3 THEN MeanFallback(ring)
  ELSE LET acc == Shoelace(ring, 0, [signedArea |-> 0, centroidLat |-> 0, centroidLng |-> 0])
       IN  IF AreaBelowEps(Abs(acc.signedArea), scale) THEN MeanFallback(ring)
           ELSE [centroid |-> [lat |-> Div(acc.centroidLat, 3 * acc.signedArea),
                               lng |-> Div(acc.centroidLng, 3 * acc.signedArea)],
                 area |-> Div(Abs(acc.signedArea), 2)]

\* the loop of calculatePolygonCenter: if (area > maxArea) { ... }
RECURSIVE BestRing(_, _, _, _)
BestRing(coordinates, scale, bestCentroid, maxArea) ==
  IF coordinates = <<>> THEN bestCentroid
  ELSE LET rc == calculateRingCentroid(Head(coordinates), scale)
       IN  IF RatGt(rc.area, maxArea)
           THEN BestRing(Tail(coordinates), scale, rc.centroid, rc.area)
           ELSE BestRing(Tail(coordinates), scale, bestCentroid, maxArea)

Origin == [lat |-> Num(0), lng |-> Num(0)]

\* a slip the comment of the code invites: "use only the outer ring (first one)"
calculatePolygonCenter_firstRing(coordinates, scale) ==
  IF Len(coordinates) = 0 THEN Origin
  ELSE calculateRingCentroid(coordinates[1], scale).centroid

calculatePolygonCenter(coordinates, scale) ==
  IF Len(coordinates) = 0 THEN Origin
  ELSE BestRing(coordinates, scale, Origin, Num(-1))

(***************************************************************************)
(* utils/geometry.ts: calculateBounds; hooks/useViewportPolygons.ts:       *)
(* calculatePolygonBounds.  A polygon is [isMultiPolygon, coordinates]:    *)
(* coordinates is a sequence of rings, or of parts (sequences of rings)    *)
(* for a MultiPolygon.                                                     *)
(***************************************************************************)
SeedNorth == -90
SeedSouth == 90
SeedEast == -180
SeedWest == 180

Max(a, b) == IF a >= b THEN a ELSE b
Min(a, b) == IF a <= b THEN a ELSE b

RECURSIVE Flatten(_)
Flatten(seqs) == IF seqs = <<>> THEN <<>> ELSE Head(seqs) \o Flatten(Tail(seqs))

\* the points one polygon pushes to allPoints
PolygonPoints(polygon) ==
  IF polygon.isMultiPolygon
  THEN Flatten(Flatten(polygon.coordinates))
  ELSE Flatten(polygon.coordinates)

RECURSIVE AllPoints(_)
AllPoints(polygons) ==
  IF polygons = <<>> THEN <<>>
  ELSE PolygonPoints(Head(polygons)) \o AllPoints(Tail(polygons))

RECURSIVE FoldFrom(_, _)
FoldFrom(allPoints, box) ==
  IF allPoints = <<>> THEN box
  ELSE LET point == Head(allPoints)
       IN  FoldFrom(Tail(allPoints),
                    [north |-> Max(box.north, point.lat),
                     south |-> Min(box.south, point.lat),
                     east  |-> Max(box.east, point.lng),
                     west  |-> Min(box.west, point.lng)])

\* a slip in the seeds: a zeroed box
FoldBounds_zeroSeed(allPoints) ==
  FoldFrom(allPoints, [north |-> 0, south |-> 0, east |-> 0, west |-> 0])

\* let north = -90, south = 90, east = -180, west = 180; for (point of allPoints) ...
FoldBounds(allPoints) ==
  FoldFrom(allPoints, [north |-> SeedNorth, south |-> SeedSouth,
                       east |-> SeedEast, west |-> SeedWest])

\* a google.maps.LatLngLiteral
Pt(lat, lng) == [lat |-> lat, lng |-> lng]

\* the null of google.maps.LatLngBoundsLiteral | null
Null == [null |-> TRUE]

IsNull(v) == "null" \in DOMAIN v

calculateBounds(polygons) ==
  IF Len(polygons) = 0 THEN Null
  ELSE LET allPoints == AllPoints(polygons)
       IN  IF Len(allPoints) = 0 THEN Null ELSE FoldBounds(allPoints)

calculatePolygonBounds(polygon) == FoldBounds(PolygonPoints(polygon))

(***************************************************************************)
(* hooks/useViewportPolygons.ts: boundsIntersect.                          *)
(***************************************************************************)
\* a slip in the first comparison: boxes that touch on a.south = b.north
\* are taken as disjoint
boundsIntersect_touchDisjoint(a, b) ==
  IF a.south >= b.north \/ a.north < b.south THEN FALSE
  ELSE IF a.west > b.east \/ a.east < b.west THEN FALSE
  ELSE TRUE

\* if (a.south > b.north || a.north < b.south) return false;
\* if (a.west > b.east || a.east < b.west) return false;  return true;
boundsIntersect(a, b) ==
  IF a.south > b.north \/ a.north < b.south THEN FALSE
  ELSE IF a.west > b.east \/ a.east < b.west THEN FALSE
  ELSE TRUE

(***************************************************************************)
(* scripts: convertCoord, processRing, processPolygon, processMultiPolygon,*)
(* processFeature and the features.map of processGeoJSON; and              *)
(* utils/geometry.ts: convertCoordinate, convertFeatureToPolygon,          *)
(* convertAllFeatures, convertPreprocessedFeatures.                        *)
(*                                                                         *)
(* A position is <<x, y>> (or <<lng, lat>>).  A feature is                 *)
(* [type, properties, geometry], a geometry [type, coordinates].           *)
(***************************************************************************)
\* proj4("EPSG:3347", WGS84, [x, y]) is a call into the proj4 library.  In
\* its place: a one-to-one map of the grid that, like the projection, keeps
\* neither distances nor angles.  Result <<lng, lat>>.
proj4(xy) == <<xy[1] - 92, 2 * xy[2] + 63>>

\* const [lng, lat] = proj4(...); return [lng, lat];
convertCoord(x, y) ==
  LET r == proj4(<<x, y>>)
      lng == r[1]
      lat == r[2]
  IN  <<lng, lat>>

\* const [lng, lat] = proj4(...); return { lat, lng };
convertCoordinate(x, y) ==
  LET r == proj4(<<x, y>>)
      lng == r[1]
      lat == r[2]
  IN  Pt(lat, lng)

\* ring.map(([x, y]) => convertCoord(x, y))
MapConvertCoord(ring) == [i \in 1..Len(ring) |-> convertCoord(ring[i][1], ring[i][2])]

\* a slip in processRing: the ring is converted first and simplified after
processRing_convertFirst(ring, tolerance) ==
  LET converted == MapConvertCoord(ring)
  IN  IF tolerance > 0 THEN simplifyLine(converted, tolerance) ELSE converted

processRing(ring, tolerance) ==
  LET simplified == processRingSimplified(ring, tolerance)
  IN  MapConvertCoord(simplified)

processPolygon(coordinates, tolerance) ==
  [i \in 1..Len(coordinates) |-> processRing(coordinates[i], tolerance)]

processMultiPolygon(coordinates, tolerance) ==
  [i \in 1..Len(coordinates) |-> processPolygon(coordinates[i], tolerance)]

processFeature(feature, tolerance) ==
  LET geometry == feature.geometry
      properties == feature.properties
  IN  IF geometry.type = "Polygon"
      THEN [type |-> "Feature", properties |-> properties,
            geometry |-> [type |-> "Polygon",
                          coordinates |-> processPolygon(geometry.coordinates, tolerance)]]
      ELSE IF geometry.type = "MultiPolygon"
      THEN [type |-> "Feature", properties |-> properties,
            geometry |-> [type |-> "MultiPolygon",
                          coordinates |-> processMultiPolygon(geometry.coordinates, tolerance)]]
      ELSE feature

\* a processing that leaves out what it cannot process
processedFeatures_supportedOnly(features, tolerance) ==
  LET Supported(f) == f.geometry.type \in {"Polygon", "MultiPolygon"}
      kept == SelectSeq(features, Supported)
  IN  [i \in 1..Len(kept) |-> processFeature(kept[i], tolerance)]

\* processGeoJSON: geoJson.features.map(feature => processFeature(feature, tolerance))
processedFeatures(features, tolerance) ==
  [i \in 1..Len(features) |-> processFeature(features[i], tolerance)]

\* an exception thrown by the call
Throw == [throws |-> "TypeError"]

Throws(v) == "throws" \in DOMAIN v

\* a call that returns the array v
Returned(v) == [value |-> v]

\* the geometry types whose coordinates are an array of arrays of
\* positions, for which coordinates.map(ring => ring.map(([x, y]) => ...))
\* runs: on the coordinates of a Point (a position) ring.map is not a
\* function, on those of a LineString (positions) [x, y] = <number> throws
RingsOfPositions == {"Polygon", "MultiLineString"}

\* the fields of a ConvertedPolygon taken from the properties
ConvertedPolygon(properties, coordinates, center, isMultiPolygon) ==
  [id |-> properties, coordinates |-> coordinates, center |-> center,
   isMultiPolygon |-> isMultiPolygon]

\* ring.map(([x, y]) => convertCoordinate(x, y))
MapConvertCoordinate(ring) ==
  [i \in 1..Len(ring) |-> convertCoordinate(ring[i][1], ring[i][2])]

\* coordinates.map(ring => ring.map(([x, y]) => convertCoordinate(x, y)))
convertPolygonCoordinates(coordinates) ==
  [i \in 1..Len(coordinates) |-> MapConvertCoordinate(coordinates[i])]

\* ring.map(([lng, lat]) => ({ lat, lng }))
MapLatLng(ring) == [i \in 1..Len(ring) |-> Pt(ring[i][2], ring[i][1])]

\* polygonCoords.map(ring => ring.map(([lng, lat]) => ({ lat, lng })))
MapLatLngRings(coordinates) ==
  [i \in 1..Len(coordinates) |-> MapLatLng(coordinates[i])]

\* calculatePolygonCenter(coordinates[0]) of a MultiPolygon: without a first
\* part the argument is undefined and coordinates.length throws.  The grid
\* of the converted coordinates has 1 step per unit.
CenterOfFirstPart(coordinates) ==
  IF Len(coordinates) = 0 THEN Throw
  ELSE calculatePolygonCenter(coordinates[1], 1)

convertFeatureToPolygon(feature) ==
  LET geometry == feature.geometry
      properties == feature.properties
  IN  IF geometry.type = "MultiPolygon"
      THEN LET coordinates ==
                 [i \in 1..Len(geometry.coordinates) |->
                    convertPolygonCoordinates(geometry.coordinates[i])]
               center == CenterOfFirstPart(coordinates)
           IN  IF Throws(center) THEN Throw
               ELSE ConvertedPolygon(properties, coordinates, center, TRUE)
      ELSE IF geometry.type \in RingsOfPositions
      THEN LET coordinates == convertPolygonCoordinates(geometry.coordinates)
           IN  ConvertedPolygon(properties, coordinates,
                                calculatePolygonCenter(coordinates, 1),
                                FALSE)
      ELSE Throw

\* features.map(feature => convertFeatureToPolygon(feature))
convertAllFeatures(features) ==
  LET mapped == [i \in 1..Len(features) |-> convertFeatureToPolygon(features[i])]
  IN  IF \E i \in 1..Len(features) : Throws(mapped[i]) THEN Throw
      ELSE Returned(mapped)

\* the loop of convertPreprocessedFeatures over the features left, with
\* result as pushed so far
RECURSIVE PushConverted(_, _)
PushConverted(features, result) ==
  IF features = <<>> THEN Returned(result)
  ELSE LET geometry == Head(features).geometry
           properties == Head(features).properties
       IN  IF geometry.type = "MultiPolygon"
           THEN LET coordinates ==
                      [i \in 1..Len(geometry.coordinates) |->
                         MapLatLngRings(geometry.coordinates[i])]
                    center == CenterOfFirstPart(coordinates)
                IN  IF Throws(center) THEN Throw
                    ELSE PushConverted(Tail(features),
                           Append(result,
                                  ConvertedPolygon(properties, coordinates, center, TRUE)))
           ELSE IF geometry.type = "Polygon"
           THEN LET coordinates == MapLatLngRings(geometry.coordinates)
                IN  PushConverted(Tail(features),
                      Append(result,
                             ConvertedPolygon(properties, coordinates,
                               calculatePolygonCenter(coordinates, 1),
                               FALSE)))
           ELSE PushConverted(Tail(features), result)

convertPreprocessedFeatures(features) == PushConverted(features, <<>>)

(***************************************************************************)
(* hooks/useViewportPolygons.ts: the hook useViewportPolygons.             *)
(*                                                                         *)
(* State of one instance: the prop polygons (polygonSet), the option       *)
(* viewportPadding, the React state mapBounds and isUpdating, the refs     *)
(* debounceRef and listenerRef,                                            *)
(* and visiblePolygons as the latest render returned it.  Around it: the   *)
(* map of useMap() and its viewport (map.getBounds()), the timers of       *)
(* setTimeout and the callbacks of requestIdleCallback still pending.      *)
(* Time passes in ticks (Tick); a timer may fire once its delay is over.   *)
(***************************************************************************)
\* the values of the option viewportPadding are 0..MaxPadding (degrees)
MaxPadding == 1
\* the option debounceMs, in ticks of the clock
DebounceTicks == 2

Paddings == 0..MaxPadding

\* a ConvertedPolygon of one ring
Poly(id, ring) == [id |-> id, isMultiPolygon |-> FALSE, coordinates |-> <<ring>>]

\* the polygon sets the caller passes: none yet, a province of three
\* polygons stacked from south to north, a province far to the north-east
\* with a MultiPolygon that has no point
ProvinceA ==
  << Poly("A1", <<Pt(0, 0), Pt(1, 1), Pt(0, 1)>>),
     Poly("A2", <<Pt(3, 0), Pt(4, 1), Pt(3, 1)>>),
     Poly("A3", <<Pt(6, 0), Pt(7, 1), Pt(6, 1)>>) >>

ProvinceB ==
  << Poly("B1", <<Pt(7, 7), Pt(8, 8), Pt(7, 8)>>),
     [id |-> "B2", isMultiPolygon |-> TRUE, coordinates |-> << <<>> >>] >>

PolygonSets == { <<>>, ProvinceA, ProvinceB }

\* what map.getBounds() can return once the map has bounds: north-east and
\* south-west corners
Viewports ==
  { [north |-> 2, south |-> 0, east |-> 2, west |-> 0],
    [north |-> 5, south |-> 2, east |-> 2, west |-> 0],
    [north |-> 9, south |-> 6, east |-> 9, west |-> 6] }

\* polygons.map(polygon => ({...polygon, bounds: calculatePolygonBounds(polygon)}))
polygonsWithBounds(ps) ==
  [i \in 1..Len(ps) |->
     [id |-> ps[i].id, isMultiPolygon |-> ps[i].isMultiPolygon,
      coordinates |-> ps[i].coordinates,
      bounds |-> calculatePolygonBounds(ps[i])]]

\* a filter that culls nothing
Visible_noCulling(bounds, withBounds) == withBounds

\* a filter that fails closed: no viewport, no polygon
Visible_failClosed(bounds, withBounds) ==
  IF ~IsNull(bounds)
  THEN LET Hit(p) == boundsIntersect(p.bounds, bounds)
       IN  SelectSeq(withBounds, Hit)
  ELSE <<>>

\* mapBounds ? polygonsWithBounds.filter(p => boundsIntersect(p.bounds, mapBounds))
\*           : polygonsWithBounds
Visible(bounds, withBounds) ==
  IF ~IsNull(bounds)
  THEN LET Hit(p) == boundsIntersect(p.bounds, bounds)
       IN  SelectSeq(withBounds, Hit)
  ELSE withBounds

\* paddedBounds of updateBounds: the viewport grown by viewportPadding
PaddedBounds(bounds, padding) ==
  [north |-> bounds.north + padding,
   south |-> bounds.south - padding,
   east  |-> bounds.east + padding,
   west  |-> bounds.west - padding]

\* a clearTimeout that cancels nothing
clearTimeout_kept(pending, id) == pending

\* clearTimeout(id) on the pending timers
clearTimeout(pending, id) == {t \in pending : t.id # id}

\* the id setTimeout returns: one that no pending timer has
FreshTimer(pending) ==
  CHOOSE id \in 1..(Cardinality(pending) + 1) : \A t \in pending : t.id # id

\* what hist holds: ticks since the last bounds_changed the hook heard (up
\* to DebounceTicks), the runs of updateBounds that set mapBounds since
\* then (up to 2; debounced: those of the debounce timer), the last step,
\* whether mapBounds dates from before the last change of polygons, and
\* the viewport mapBounds was computed from
NoHistory ==
  [sinceEvent |-> DebounceTicks, updates |-> 0, debounced |-> 0,
   step |-> "none", stale |-> FALSE, queried |-> Null]

InitViewport ==
  /\ mounted = FALSE
  /\ map = FALSE
  /\ viewport = Null
  /\ viewportPadding = 0
  /\ polygonSet = <<>>
  /\ mapBounds = Null
  /\ isUpdating = FALSE
  /\ debounceRef = 0
  /\ listenerRef = FALSE
  /\ timers = {}
  /\ idle = {}
  /\ visiblePolygons = <<>>
  /\ hist = NoHistory

(***************************************************************************)
(* hooks/useProvinceData.ts: the hook useProvinceData.                     *)
(*                                                                         *)
(* State: the prop selectedProvince, the React state polygons              *)
(* (provincePolygons), isLoading and error, the ref abortControllerRef,    *)
(* the controller the cleanup of the latest effect run aborts              *)
(* (effectCleanup, 0 when that run returned before fetchData), and the     *)
(* module's provinceCache.  requests are the runs of fetchData that wait   *)
(* at an await: [id, province, stage, usePreprocessed, aborted], id being  *)
(* the run's AbortController.  A run goes on, without interleaving, from   *)
(* the await that settles to the next await or to its end.  fetch and      *)
(* response.json() reject with an AbortError once the signal is aborted.   *)
(***************************************************************************)
\* most runs of fetchData in flight, the aborted ones included
MaxRequests == 2

Provinces == {"AB", "BC"}

\* selectedProvince undefined
NoProvince == "undefined"

\* error null
NoError == "null"

\* the polygons converted from the file of a province, preprocessed or not
ProvinceData(province, usePreprocessed) ==
  [province |-> province, usePreprocessed |-> usePreprocessed]

\* provinceCache.get(key) of a key that has no entry
NoEntry == [undefined |-> TRUE]

IsEntry(e) == "polygons" \in DOMAIN e

\* a cache that finds nothing
provinceCacheGet_miss(cache, key) == NoEntry

\* provinceCache.get(cacheKey)
provinceCacheGet(cache, key) ==
  IF \E e \in cache : e.key = key
  THEN CHOOSE e \in cache : e.key = key
  ELSE NoEntry

\* provinceCache.set(cacheKey, { features, polygons })
provinceCacheSet(cache, key, convertedPolygons) ==
  {e \in cache : e.key # key} \cup {[key |-> key, polygons |-> convertedPolygons]}

\* an abort that the runs in flight do not see
Abort_ignored(pending, id) == pending

\* abortController.abort() of the controller id
Abort(pending, id) ==
  {IF r.id = id THEN [r EXCEPT !.aborted = TRUE] ELSE r : r \in pending}

\* the id of a new AbortController: one that no run in flight has
FreshController(pending) ==
  CHOOSE id \in 1..(Cardinality(pending) + 1) : \A r \in pending : r.id # id

\* what provHist holds: the last step; for a selection, whether it issued a
\* network request; for the end of a run of fetchData, whether it wrote the
\* cache; the provinces fetched and converted successfully so far; the
\* province selected last in this instance of the hook and whether its load
\* has succeeded (from the cache or from the network) since; and polygons as
\* it was when the last run of fetchData started
NoProvinceHistory ==
  [step |-> "none", issued |-> FALSE, wrote |-> FALSE, loaded |-> {},
   selected |-> NoProvince, succeeded |-> FALSE, before |-> <<>>]

InitProvince ==
  /\ selectedProvince = NoProvince
  /\ provinceCache = {}
  /\ provincePolygons = <<>>
  /\ isLoading = FALSE
  /\ error = NoError
  /\ abortControllerRef = 0
  /\ effectCleanup = 0
  /\ requests = {}
  /\ provHist = NoProvinceHistory

(***************************************************************************)
(* The pages.  LDU markers at the same location form a group; the map      *)
(* panel selects whole groups, the form single postal codes.  Of a stored  *)
(* segment the model keeps fsaId and ldus.                                 *)
(***************************************************************************)
\* the number of stored segments
MaxSegments == 2

\* the greatest amount of segment items of the form
MaxItems == 2

\* selectedFsaId null (MapPage), "" (CreateSegmentForm)
NoFsa == "null"

\* no province: selectedProvince undefined (MapPage), selectedProvinceCode ""
NoCode == ""

ProvinceCodes == {"AB"}

\* the FSAs of the polygons of a province
FsaIds(code) == IF code = "AB" THEN {"T2A", "T2B"} ELSE {}

\* the LDU markers of an FSA grouped by location: T2A has two postal codes
\* at one location, T2B two at two locations
LduGroups(fsaId) ==
  IF fsaId = "T2A" THEN {{"T2A1A1", "T2A1A2"}}
  ELSE IF fsaId = "T2B" THEN {{"T2B1A1"}, {"T2B2B2"}}
  ELSE {}

\* the postal codes of an FSA
PostalCodes(fsaId) == UNION LduGroups(fsaId)

\* useUsedSegmentData: the postal codes of the stored segments
usedLdus(stored) == UNION {stored[i].ldus : i \in 1..Len(stored)}

\* isGroupUsed of LduLayer
isGroupUsed(group, used) == group \subseteq used

\* a new item of generateSegmentItems; disabled is what its LduSelector
\* disables, computed once when its options load
NewItem(disabledValues) ==
  [ldus |-> {}, hasOperator |-> FALSE, disabled |-> disabledValues]

\* the state of CreateSegmentForm after a reset
EmptyForm ==
  [selectedProvinceCode |-> NoCode, selectedFsaId |-> NoFsa,
   segmentItems |-> <<>>]

\* s without its element i
RemoveAt(s, i) == SubSeq(s, 1, i - 1) \o SubSeq(s, i + 1, Len(s))

\* what pageHist holds: the last step and, for a click on an FSA of the
\* map, the FSA clicked and the one selected before
NoPageHistory == [step |-> "none", clicked |-> NoFsa, was |-> NoFsa]

InitPages ==
  /\ route = "map"
  /\ provinceCode = NoCode
  /\ selectedFsaId = NoFsa
  /\ selectedLdus = {}
  /\ form = EmptyForm
  /\ segments = <<>>
  /\ pageHist = NoPageHistory

(***************************************************************************)
(* Calls.  A caller picks a function (Begin...), builds its argument       *)
(* (Push...), calls it (Call...) and takes the result (Return).            *)
(***************************************************************************)
Init ==
  /\ pc = "idle"
  /\ fn = "none"
  /\ args = [points |-> <<>>]
  /\ ret = <<>>
  /\ InitViewport
  /\ InitProvince
  /\ InitPages

Return ==
  /\ pc = "done"
  /\ pc' = "idle"
  /\ fn' = "none"
  /\ args' = [points |-> <<>>]
  /\ ret' = <<>>
  /\ UNCHANGED hookVars

Building(f) == pc = "args" /\ fn = f

\* ---- simplifyLine / processRing
BeginSimplifyLine ==
  /\ pc = "idle"
  /\ \E tolerance \in Tolerances :
       args' = [points |-> <<>>, tolerance |-> tolerance]
  /\ fn' = "simplifyLine"
  /\ pc' = "args"
  /\ UNCHANGED ret
  /\ UNCHANGED hookVars

BeginProcessRing ==
  /\ pc = "idle"
  /\ \E tolerance \in Tolerances :
       args' = [points |-> <<>>, tolerance |-> tolerance]
  /\ fn' = "processRing"
  /\ pc' = "args"
  /\ UNCHANGED ret
  /\ UNCHANGED hookVars

PushXY ==
  /\ Building("simplifyLine") \/ Building("processRing")
  /\ Len(args.points) < MaxLine
  /\ \E p \in XY : args' = [args EXCEPT !.points = Append(@, p)]
  /\ UNCHANGED <<pc, fn, ret>>
  /\ UNCHANGED hookVars

CallSimplifyLine ==
  /\ Building("simplifyLine")
  /\ ret' = simplifyLine(args.points, args.tolerance)
  /\ pc' = "done"
  /\ UNCHANGED <<fn, args>>
  /\ UNCHANGED hookVars

CallProcessRing ==
  /\ Building("processRing")
  /\ ret' = processRingSimplified(args.points, args.tolerance)
  /\ pc' = "done"
  /\ UNCHANGED <<fn, args>>
  /\ UNCHANGED hookVars

NextSimplify ==
  \/ BeginSimplifyLine
  \/ BeginProcessRing
  \/ PushXY
  \/ CallSimplifyLine
  \/ CallProcessRing
  \/ Return

SpecSimplify == Init /\ [][NextSimplify]_vars

\* ---- calculateConvexHull
BeginConvexHull ==
  /\ pc = "idle"
  /\ args' = [points |-> <<>>]
  /\ fn' = "calculateConvexHull"
  /\ pc' = "args"
  /\ UNCHANGED ret
  /\ UNCHANGED hookVars

PushHullPoint ==
  /\ Building("calculateConvexHull")
  /\ Len(args.points) < MaxHullPoints
  /\ \E p \in LatLng : args' = [args EXCEPT !.points = Append(@, p)]
  /\ UNCHANGED <<pc, fn, ret>>
  /\ UNCHANGED hookVars

\* after the call args.points is the caller's array as the call left it and
\* args.given what it held when passed
CallCalculateConvexHull ==
  /\ Building("calculateConvexHull")
  /\ ret' = calculateConvexHull(args.points)
  /\ args' = [points |-> pointsAfterSort(args.points), given |-> args.points]
  /\ pc' = "done"
  /\ UNCHANGED fn
  /\ UNCHANGED hookVars

NextHull ==
  \/ BeginConvexHull
  \/ PushHullPoint
  \/ CallCalculateConvexHull
  \/ Return

SpecHull == Init /\ [][NextHull]_vars

\* ---- calculateRingCentroid / calculatePolygonCenter
\* ring vertices are on the grid 0..MaxRingLat x 0..MaxRingLng
MaxRingLat == 2
MaxRingLng == 1
\* most vertices of a ring handed to calculateRingCentroid
MaxRing == 4
\* most rings of a polygon handed to calculatePolygonCenter
MaxRings == 3

RingGrid == [lat : 0..MaxRingLat, lng : 0..MaxRingLng]

\* the square ring [(0,0),(0,10),(10,10),(10,0)]
SquareRing == <<Pt(0, 0), Pt(0, 10), Pt(10, 10), Pt(10, 0)>>

\* the rings polygons are made of: two squares of area 4, two triangles of
\* area 1/2, a ring of 3 collinear points, a ring of 2 points, an empty ring
RingPool ==
  { <<Pt(0, 0), Pt(0, 2), Pt(2, 2), Pt(2, 0)>>,
    <<Pt(1, 1), Pt(3, 1), Pt(3, 3), Pt(1, 3)>>,
    <<Pt(0, 0), Pt(1, 0), Pt(0, 1)>>,
    <<Pt(1, 1), Pt(1, 2), Pt(2, 1)>>,
    <<Pt(0, 0), Pt(1, 1), Pt(2, 2)>>,
    <<Pt(0, 0), Pt(2, 2)>>,
    <<>> }

BeginRingCentroid ==
  /\ pc = "idle"
  /\ \E scale \in Scales : args' = [ring |-> <<>>, scale |-> scale]
  /\ fn' = "calculateRingCentroid"
  /\ pc' = "args"
  /\ UNCHANGED ret
  /\ UNCHANGED hookVars

PushRingPoint ==
  /\ Building("calculateRingCentroid")
  /\ Len(args.ring) < MaxRing
  /\ \A i \in 1..Len(args.ring) : args.ring[i] \in RingGrid
  /\ \E p \in RingGrid : args' = [args EXCEPT !.ring = Append(@, p)]
  /\ UNCHANGED <<pc, fn, ret>>
  /\ UNCHANGED hookVars

LoadSquareRing ==
  /\ Building("calculateRingCentroid")
  /\ args.ring = <<>>
  /\ args' = [args EXCEPT !.ring = SquareRing]
  /\ UNCHANGED <<pc, fn, ret>>
  /\ UNCHANGED hookVars

CallCalculateRingCentroid ==
  /\ Building("calculateRingCentroid")
  /\ ret' = calculateRingCentroid(args.ring, args.scale)
  /\ pc' = "done"
  /\ UNCHANGED <<fn, args>>
  /\ UNCHANGED hookVars

BeginPolygonCenter ==
  /\ pc = "idle"
  /\ \E scale \in Scales : args' = [coordinates |-> <<>>, scale |-> scale]
  /\ fn' = "calculatePolygonCenter"
  /\ pc' = "args"
  /\ UNCHANGED ret
  /\ UNCHANGED hookVars

PushRing ==
  /\ Building("calculatePolygonCenter")
  /\ Len(args.coordinates) < MaxRings
  /\ \E ring \in RingPool : args' = [args EXCEPT !.coordinates = Append(@, ring)]
  /\ UNCHANGED <<pc, fn, ret>>
  /\ UNCHANGED hookVars

CallCalculatePolygonCenter ==
  /\ Building("calculatePolygonCenter")
  /\ ret' = calculatePolygonCenter(args.coordinates, args.scale)
  /\ pc' = "done"
  /\ UNCHANGED <<fn, args>>
  /\ UNCHANGED hookVars

NextCentroid ==
  \/ BeginRingCentroid
  \/ PushRingPoint
  \/ LoadSquareRing
  \/ CallCalculateRingCentroid
  \/ BeginPolygonCenter
  \/ PushRing
  \/ CallCalculatePolygonCenter
  \/ Return

SpecCentroid == Init /\ [][NextCentroid]_vars

\* ---- calculateBounds / calculatePolygonBounds
\* most nodes (polygons + parts + rings + points) of a polygon list
MaxNodes == 6

\* points in and out of the range lat -90..90, lng -180..180
BoundsPoints ==
  { Pt(SeedNorth - 1, SeedEast - 1), Pt(-1, 7), Pt(3, -5),
    Pt(SeedSouth + 1, SeedWest + 1) }

RECURSIVE SumLen(_)
SumLen(seqs) == IF seqs = <<>> THEN 0 ELSE Len(Head(seqs)) + SumLen(Tail(seqs))

\* polygons + parts + rings + points of one polygon
PolygonNodes(polygon) ==
  IF polygon.isMultiPolygon
  THEN 1 + Len(polygon.coordinates) + SumLen(polygon.coordinates)
         + Len(PolygonPoints(polygon))
  ELSE 1 + Len(polygon.coordinates) + Len(PolygonPoints(polygon))

RECURSIVE Nodes(_)
Nodes(polygons) ==
  IF polygons = <<>> THEN 0 ELSE PolygonNodes(Head(polygons)) + Nodes(Tail(polygons))

Last(s) == s[Len(s)]

\* s with f applied to its last element
OnLast(s, f(_)) == [s EXCEPT ![Len(s)] = f(@)]

BeginBounds ==
  /\ pc = "idle"
  /\ args' = [polygons |-> <<>>]
  /\ fn' = "bounds"
  /\ pc' = "args"
  /\ UNCHANGED ret
  /\ UNCHANGED hookVars

AddPolygon ==
  /\ Building("bounds")
  /\ Nodes(args.polygons) < MaxNodes
  /\ \E multi \in BOOLEAN :
       args' = [polygons |-> Append(args.polygons,
                                    [isMultiPolygon |-> multi, coordinates |-> <<>>])]
  /\ UNCHANGED <<pc, fn, ret>>
  /\ UNCHANGED hookVars

\* a new part of the last polygon, a MultiPolygon
AddPart ==
  /\ Building("bounds")
  /\ Nodes(args.polygons) < MaxNodes
  /\ args.polygons # <<>>
  /\ Last(args.polygons).isMultiPolygon
  /\ LET grow(polygon) == [polygon EXCEPT !.coordinates = Append(@, <<>>)]
     IN  args' = [polygons |-> OnLast(args.polygons, grow)]
  /\ UNCHANGED <<pc, fn, ret>>
  /\ UNCHANGED hookVars

\* a new ring of the last polygon (of its last part, for a MultiPolygon)
AddRing ==
  /\ Building("bounds")
  /\ Nodes(args.polygons) < MaxNodes
  /\ args.polygons # <<>>
  /\ Last(args.polygons).isMultiPolygon => Last(args.polygons).coordinates # <<>>
  /\ LET ring(part) == Append(part, <<>>)
         grow(polygon) ==
           IF polygon.isMultiPolygon
           THEN [polygon EXCEPT !.coordinates = OnLast(@, ring)]
           ELSE [polygon EXCEPT !.coordinates = ring(@)]
     IN  args' = [polygons |-> OnLast(args.polygons, grow)]
  /\ UNCHANGED <<pc, fn, ret>>
  /\ UNCHANGED hookVars

\* a new point of the last ring
AddPoint ==
  /\ Building("bounds")
  /\ Nodes(args.polygons) < MaxNodes
  /\ args.polygons # <<>>
  /\ Last(args.polygons).coordinates # <<>>
  /\ Last(args.polygons).isMultiPolygon =>
       Last(Last(args.polygons).coordinates) # <<>>
  /\ \E p \in BoundsPoints :
       LET point(ring) == Append(ring, p)
           inPart(part) == OnLast(part, point)
           grow(polygon) ==
             IF polygon.isMultiPolygon
             THEN [polygon EXCEPT !.coordinates = OnLast(@, inPart)]
             ELSE [polygon EXCEPT !.coordinates = OnLast(@, point)]
       IN  args' = [polygons |-> OnLast(args.polygons, grow)]
  /\ UNCHANGED <<pc, fn, ret>>
  /\ UNCHANGED hookVars

\* calculateBounds(polygons)
CallCalculateBounds ==
  /\ Building("bounds")
  /\ ret' = calculateBounds(args.polygons)
  /\ args' = [polygons |-> args.polygons, points |-> AllPoints(args.polygons)]
  /\ fn' = "calculateBounds"
  /\ pc' = "done"
  /\ UNCHANGED hookVars

\* polygons.map(polygon => ({...polygon, bounds: calculatePolygonBounds(polygon)})),
\* one polygon of the list
CallCalculatePolygonBounds ==
  /\ Building("bounds")
  /\ \E i \in 1..Len(args.polygons) :
       /\ ret' = calculatePolygonBounds(args.polygons[i])
       /\ args' = [polygons |-> args.polygons, polygon |-> args.polygons[i],
                   points |-> PolygonPoints(args.polygons[i])]
  /\ fn' = "calculatePolygonBounds"
  /\ pc' = "done"
  /\ UNCHANGED hookVars

NextBounds ==
  \/ BeginBounds
  \/ AddPolygon
  \/ AddPart
  \/ AddRing
  \/ AddPoint
  \/ CallCalculateBounds
  \/ CallCalculatePolygonBounds
  \/ Return

SpecBounds == Init /\ [][NextBounds]_vars

\* ---- boundsIntersect
\* the edges of a box are on the grid 0..MaxBox
MaxBox == 2

\* every box of the grid, the inverted ones (south > north, west > east) too
Boxes == [north : 0..MaxBox, south : 0..MaxBox, east : 0..MaxBox, west : 0..MaxBox]

BeginBoundsIntersect ==
  /\ pc = "idle"
  /\ args' = [boxes |-> <<>>]
  /\ fn' = "boundsIntersect"
  /\ pc' = "args"
  /\ UNCHANGED ret
  /\ UNCHANGED hookVars

PushBox ==
  /\ Building("boundsIntersect")
  /\ Len(args.boxes) < 2
  /\ \E box \in Boxes : args' = [args EXCEPT !.boxes = Append(@, box)]
  /\ UNCHANGED <<pc, fn, ret>>
  /\ UNCHANGED hookVars

\* boundsIntersect(a, b) and boundsIntersect(b, a)
CallBoundsIntersect ==
  /\ Building("boundsIntersect")
  /\ Len(args.boxes) = 2
  /\ LET a == args.boxes[1]
         b == args.boxes[2]
     IN  ret' = [ab |-> boundsIntersect(a, b), ba |-> boundsIntersect(b, a)]
  /\ pc' = "done"
  /\ UNCHANGED <<fn, args>>
  /\ UNCHANGED hookVars

NextIntersect ==
  \/ BeginBoundsIntersect
  \/ PushBox
  \/ CallBoundsIntersect
  \/ Return

SpecIntersect == Init /\ [][NextIntersect]_vars

\* ---- processGeoJSON, convertAllFeatures, convertPreprocessedFeatures
\* most nodes (features + parts + rings + positions) of a feature list
MaxFeatureNodes == 6

\* the positions of the rings
Positions == {<<0, 0>>, <<1, 1>>, <<2, 0>>, <<1, 2>>}

\* tolerances at and below 0, and above
ProcessTolerances == {-1} \cup Tolerances

\* geometry types that are neither Polygon nor MultiPolygon
UnsupportedTypes == {"Point", "LineString"}

\* a geometry of such a type: a position, a line of two positions
UnsupportedGeometry(type) ==
  IF type = "Point"
  THEN [type |-> "Point", coordinates |-> <<1, 1>>]
  ELSE [type |-> "LineString", coordinates |-> << <<0, 0>>, <<1, 1>> >>]

Supported(feature) == feature.geometry.type \in {"Polygon", "MultiPolygon"}

FeatureNodes(feature) ==
  LET coordinates == feature.geometry.coordinates
  IN  IF feature.geometry.type = "MultiPolygon"
      THEN 1 + Len(coordinates) + SumLen(coordinates)
             + Len(Flatten(Flatten(coordinates)))
      ELSE IF feature.geometry.type = "Polygon"
      THEN 1 + Len(coordinates) + Len(Flatten(coordinates))
      ELSE 1

RECURSIVE AllFeatureNodes(_)
AllFeatureNodes(features) ==
  IF features = <<>> THEN 0
  ELSE FeatureNodes(Head(features)) + AllFeatureNodes(Tail(features))

\* the feature list a caller builds can grow by one node
CanGrow == Building("features") /\ AllFeatureNodes(args.features) < MaxFeatureNodes

BeginFeatures ==
  /\ pc = "idle"
  /\ \E tolerance \in ProcessTolerances :
       args' = [features |-> <<>>, tolerance |-> tolerance]
  /\ fn' = "features"
  /\ pc' = "args"
  /\ UNCHANGED ret
  /\ UNCHANGED hookVars

\* a Polygon or MultiPolygon feature, its coordinates still empty; the
\* properties tell the features apart
AddFeature ==
  /\ CanGrow
  /\ \E type \in {"Polygon", "MultiPolygon"} :
       args' = [args EXCEPT !.features =
                  Append(@, [type |-> "Feature",
                             properties |-> Len(args.features) + 1,
                             geometry |-> [type |-> type, coordinates |-> <<>>]])]
  /\ UNCHANGED <<pc, fn, ret>>
  /\ UNCHANGED hookVars

AddUnsupportedFeature ==
  /\ CanGrow
  /\ \E type \in UnsupportedTypes :
       args' = [args EXCEPT !.features =
                  Append(@, [type |-> "Feature",
                             properties |-> Len(args.features) + 1,
                             geometry |-> UnsupportedGeometry(type)])]
  /\ UNCHANGED <<pc, fn, ret>>
  /\ UNCHANGED hookVars

\* a new part of the last feature, a MultiPolygon
AddGeometryPart ==
  /\ CanGrow
  /\ args.features # <<>>
  /\ Last(args.features).geometry.type = "MultiPolygon"
  /\ LET grow(feature) == [feature EXCEPT !.geometry.coordinates = Append(@, <<>>)]
     IN  args' = [args EXCEPT !.features = OnLast(@, grow)]
  /\ UNCHANGED <<pc, fn, ret>>
  /\ UNCHANGED hookVars

\* a new ring of the last feature (of its last part, for a MultiPolygon)
AddGeometryRing ==
  /\ CanGrow
  /\ args.features # <<>>
  /\ Supported(Last(args.features))
  /\ Last(args.features).geometry.type = "MultiPolygon" =>
       Last(args.features).geometry.coordinates # <<>>
  /\ LET ring(part) == Append(part, <<>>)
         grow(feature) ==
           IF feature.geometry.type = "MultiPolygon"
           THEN [feature EXCEPT !.geometry.coordinates = OnLast(@, ring)]
           ELSE [feature EXCEPT !.geometry.coordinates = ring(@)]
     IN  args' = [args EXCEPT !.features = OnLast(@, grow)]
  /\ UNCHANGED <<pc, fn, ret>>
  /\ UNCHANGED hookVars

\* a new position of the last ring
AddPosition ==
  /\ CanGrow
  /\ args.features # <<>>
  /\ Supported(Last(args.features))
  /\ Last(args.features).geometry.coordinates # <<>>
  /\ Last(args.features).geometry.type = "MultiPolygon" =>
       Last(Last(args.features).geometry.coordinates) # <<>>
  /\ \E xy \in Positions :
       LET position(ring) == Append(ring, xy)
           inPart(part) == OnLast(part, position)
           grow(feature) ==
             IF feature.geometry.type = "MultiPolygon"
             THEN [feature EXCEPT !.geometry.coordinates = OnLast(@, inPart)]
             ELSE [feature EXCEPT !.geometry.coordinates = OnLast(@, position)]
       IN  args' = [args EXCEPT !.features = OnLast(@, grow)]
  /\ UNCHANGED <<pc, fn, ret>>
  /\ UNCHANGED hookVars

CallProcessGeoJSON ==
  /\ Building("features")
  /\ ret' = processedFeatures(args.features, args.tolerance)
  /\ fn' = "processGeoJSON"
  /\ pc' = "done"
  /\ UNCHANGED args
  /\ UNCHANGED hookVars

CallConvertAllFeatures ==
  /\ Building("features")
  /\ ret' = convertAllFeatures(args.features)
  /\ fn' = "convertAllFeatures"
  /\ pc' = "done"
  /\ UNCHANGED args
  /\ UNCHANGED hookVars

CallConvertPreprocessedFeatures ==
  /\ Building("features")
  /\ ret' = convertPreprocessedFeatures(args.features)
  /\ fn' = "convertPreprocessedFeatures"
  /\ pc' = "done"
  /\ UNCHANGED args
  /\ UNCHANGED hookVars

NextFeatures ==
  \/ BeginFeatures
  \/ AddFeature
  \/ AddUnsupportedFeature
  \/ AddGeometryPart
  \/ AddGeometryRing
  \/ AddPosition
  \/ CallProcessGeoJSON
  \/ CallConvertAllFeatures
  \/ CallConvertPreprocessedFeatures
  \/ Return

SpecFeatures == Init /\ [][NextFeatures]_vars

\* ---- useViewportPolygons
\* the body of updateBounds, run by the debounce timer ("debounce") or by
\* the idle callback of the listener effect ("initial")
UpdateBounds(by) ==
  IF ~map \/ IsNull(viewport)
  THEN /\ hist' = [hist EXCEPT !.step = "returned"]
       /\ UNCHANGED <<mapBounds, isUpdating, visiblePolygons>>
  ELSE /\ mapBounds' = PaddedBounds(viewport, viewportPadding)
       /\ isUpdating' = FALSE
       /\ visiblePolygons' = Visible(mapBounds', polygonsWithBounds(polygonSet))
       /\ hist' = [hist EXCEPT !.step = by,
                               !.updates = Min(2, @ + 1),
                               !.debounced = IF by = "debounce" THEN Min(2, @ + 1) ELSE @,
                               !.stale = FALSE,
                               !.queried = viewport]

\* the first render of a component that uses the hook, and its effects: the
\* reset effect asks for an idle callback; the listener effect, if the map
\* is there, asks for the initial update and adds the listener
Mount ==
  /\ ~mounted
  /\ mounted' = TRUE
  /\ \E ps \in PolygonSets, padding \in Paddings :
       /\ polygonSet' = ps
       /\ viewportPadding' = padding
       /\ visiblePolygons' = Visible(Null, polygonsWithBounds(ps))
  /\ mapBounds' = Null
  /\ isUpdating' = FALSE
  /\ debounceRef' = 0
  /\ idle' = IF map THEN {"reset", "initialUpdate"} ELSE {"reset"}
  /\ listenerRef' = map
  /\ hist' = NoHistory
  /\ UNCHANGED <<map, viewport, timers>>
  /\ UNCHANGED notView

\* useMap() starts to return the map: the listener effect runs
MapReady ==
  /\ ~map
  /\ map' = TRUE
  /\ IF mounted
     THEN /\ idle' = idle \cup {"initialUpdate"}
          /\ listenerRef' = TRUE
          /\ hist' = [hist EXCEPT !.step = "other"]
     ELSE UNCHANGED <<idle, listenerRef, hist>>
  /\ UNCHANGED <<mounted, viewport, viewportPadding, polygonSet, mapBounds,
                 isUpdating, debounceRef, timers, visiblePolygons>>
  /\ UNCHANGED notView

\* useMap() returns null again (the map instance is gone): the cleanup of
\* the listener effect runs, and the effect itself returns at once
MapGone ==
  /\ map
  /\ map' = FALSE
  /\ viewport' = Null
  /\ IF mounted
     THEN /\ idle' = idle \ {"initialUpdate"}
          /\ listenerRef' = FALSE
          /\ timers' = IF debounceRef # 0 THEN clearTimeout(timers, debounceRef)
                       ELSE timers
          /\ debounceRef' = 0
          /\ hist' = [hist EXCEPT !.step = "cleanup"]
     ELSE UNCHANGED <<idle, listenerRef, timers, debounceRef, hist>>
  /\ UNCHANGED <<mounted, viewportPadding, polygonSet, mapBounds, isUpdating,
                 visiblePolygons>>
  /\ UNCHANGED notView

\* the map moves while no hook listens
MapMoves ==
  /\ map
  /\ ~listenerRef
  /\ \E v \in Viewports \ {viewport} : viewport' = v
  /\ UNCHANGED <<mounted, map, viewportPadding, polygonSet, mapBounds,
                 isUpdating, debounceRef, listenerRef, timers, idle,
                 visiblePolygons, hist>>
  /\ UNCHANGED notView

\* a bounds_changed event of the map, heard by the listener
handleBoundsChanged ==
  /\ map
  /\ listenerRef
  /\ \E v \in Viewports \ {viewport} : viewport' = v
  /\ isUpdating' = TRUE
  /\ LET pending == IF debounceRef # 0 THEN clearTimeout(timers, debounceRef)
                    ELSE timers
         id == FreshTimer(pending)
     IN  /\ timers' = pending \cup {[id |-> id, left |-> DebounceTicks]}
         /\ debounceRef' = id
  /\ hist' = [hist EXCEPT !.sinceEvent = 0, !.updates = 0, !.debounced = 0,
                          !.step = "other"]
  /\ UNCHANGED <<mounted, map, viewportPadding, polygonSet, mapBounds,
                 listenerRef, idle, visiblePolygons>>
  /\ UNCHANGED notView

\* one tick of the clock
Tick ==
  /\ \/ \E t \in timers : t.left > 0
     \/ hist.sinceEvent < DebounceTicks
  /\ timers' = {[t EXCEPT !.left = Max(0, @ - 1)] : t \in timers}
  /\ hist' = [hist EXCEPT !.sinceEvent = Min(DebounceTicks, @ + 1),
                          !.step = "other"]
  /\ UNCHANGED <<mounted, map, viewport, viewportPadding, polygonSet, mapBounds,
                 isUpdating, debounceRef, listenerRef, idle, visiblePolygons>>
  /\ UNCHANGED notView

\* a timer of setTimeout(updateBounds, debounceMs) fires
DebounceFires ==
  /\ \E t \in timers :
       /\ t.left = 0
       /\ timers' = timers \ {t}
  /\ UpdateBounds("debounce")
  /\ UNCHANGED <<mounted, map, viewport, viewportPadding, polygonSet,
                 debounceRef, listenerRef, idle>>
  /\ UNCHANGED notView

\* the idle callback of the listener effect: () => updateBounds()
InitialUpdate ==
  /\ "initialUpdate" \in idle
  /\ idle' = idle \ {"initialUpdate"}
  /\ UpdateBounds("initial")
  /\ UNCHANGED <<mounted, map, viewport, viewportPadding, polygonSet,
                 debounceRef, listenerRef, timers>>
  /\ UNCHANGED notView

\* the idle callback of the reset effect: () => setMapBounds(null)
ResetBounds ==
  /\ "reset" \in idle
  /\ idle' = idle \ {"reset"}
  /\ mapBounds' = Null
  /\ visiblePolygons' = Visible(Null, polygonsWithBounds(polygonSet))
  /\ hist' = [hist EXCEPT !.step = "other", !.stale = FALSE, !.queried = Null]
  /\ UNCHANGED <<mounted, map, viewport, viewportPadding, polygonSet,
                 isUpdating, debounceRef, listenerRef, timers>>
  /\ UNCHANGED notView

\* the caller passes another polygon set: the render filters it by mapBounds,
\* then the reset effect cancels its idle callback and asks for a new one
ChangePolygons ==
  /\ mounted
  /\ \E ps \in PolygonSets \ {polygonSet} :
       /\ polygonSet' = ps
       /\ visiblePolygons' = Visible(mapBounds, polygonsWithBounds(ps))
  /\ idle' = (idle \ {"reset"}) \cup {"reset"}
  /\ hist' = [hist EXCEPT !.step = "other", !.stale = ~IsNull(mapBounds)]
  /\ UNCHANGED <<mounted, map, viewport, viewportPadding, mapBounds,
                 isUpdating, debounceRef, listenerRef, timers>>
  /\ UNCHANGED notView

\* the component goes: the cleanups of both effects run
Unmount ==
  /\ mounted
  /\ mounted' = FALSE
  /\ idle' = {}
  /\ listenerRef' = FALSE
  /\ timers' = IF debounceRef # 0 THEN clearTimeout(timers, debounceRef)
               ELSE timers
  /\ debounceRef' = 0
  /\ polygonSet' = <<>>
  /\ viewportPadding' = 0
  /\ mapBounds' = Null
  /\ isUpdating' = FALSE
  /\ visiblePolygons' = <<>>
  /\ hist' = NoHistory
  /\ UNCHANGED <<map, viewport>>
  /\ UNCHANGED notView

NextViewport ==
  \/ Mount
  \/ MapReady
  \/ MapGone
  \/ MapMoves
  \/ handleBoundsChanged
  \/ Tick
  \/ DebounceFires
  \/ InitialUpdate
  \/ ResetBounds
  \/ ChangePolygons
  \/ Unmount

SpecViewport == Init /\ [][NextViewport]_vars

\* ---- useProvinceData
\* a catch block that clears polygons
Fail_cleared(r, message) ==
  /\ error' = message
  /\ isLoading' = FALSE
  /\ requests' = requests \ {r}
  /\ provHist' = [provHist EXCEPT !.step = "failed", !.issued = FALSE,
                                  !.wrote = FALSE]
  /\ provincePolygons' = <<>>
  /\ UNCHANGED provinceCache

\* the end of a run of fetchData in the catch block (not an AbortError) and
\* the finally block
Fail(r, message) ==
  /\ error' = message
  /\ isLoading' = FALSE
  /\ requests' = requests \ {r}
  /\ provHist' = [provHist EXCEPT !.step = "failed", !.issued = FALSE,
                                  !.wrote = FALSE]
  /\ UNCHANGED <<provinceCache, provincePolygons>>

\* selectedProvince becomes undefined: the cleanup of the last effect run,
\* then the effect returns at once
DeselectProvince ==
  /\ selectedProvince # NoProvince
  /\ selectedProvince' = NoProvince
  /\ requests' = Abort(requests, effectCleanup)
  /\ effectCleanup' = 0
  /\ provHist' = [provHist EXCEPT !.step = "deselect", !.issued = FALSE,
                                  !.wrote = FALSE]
  /\ UNCHANGED <<provinceCache, provincePolygons, isLoading, error,
                 abortControllerRef>>
  /\ UNCHANGED notProvince

\* another province is selected and the cache has it
SelectCachedProvince ==
  /\ \E province \in Provinces \ {selectedProvince} :
       LET cached == provinceCacheGet(provinceCache, province)
       IN  /\ IsEntry(cached)
           /\ selectedProvince' = province
           /\ provincePolygons' = cached.polygons
           /\ provHist' = [provHist EXCEPT !.step = "select", !.issued = FALSE,
                                           !.wrote = FALSE,
                                           !.selected = province,
                                           !.succeeded = TRUE]
  /\ error' = NoError
  /\ isLoading' = FALSE
  /\ requests' = Abort(requests, effectCleanup)
  /\ effectCleanup' = 0
  /\ UNCHANGED <<provinceCache, abortControllerRef>>
  /\ UNCHANGED notProvince

\* another province is selected and the cache does not have it: the
\* controller of the ref is aborted, fetchData starts and waits for
\* fetch(preprocessedPath)
SelectProvince ==
  /\ Cardinality(requests) < MaxRequests
  /\ \E province \in Provinces \ {selectedProvince} :
       LET cached == provinceCacheGet(provinceCache, province)
           pending == Abort(Abort(requests, effectCleanup), abortControllerRef)
           id == FreshController(pending)
       IN  /\ ~IsEntry(cached)
           /\ selectedProvince' = province
           /\ requests' = pending \cup
                {[id |-> id, province |-> province, stage |-> "preprocessed",
                  usePreprocessed |-> FALSE, aborted |-> FALSE]}
           /\ abortControllerRef' = id
           /\ effectCleanup' = id
           /\ provHist' = [provHist EXCEPT !.step = "select", !.issued = TRUE,
                                           !.wrote = FALSE,
                                           !.selected = province,
                                           !.succeeded = FALSE,
                                           !.before = provincePolygons]
  /\ isLoading' = TRUE
  /\ error' = NoError
  /\ UNCHANGED <<provinceCache, provincePolygons>>
  /\ UNCHANGED notProvince

\* fetch(preprocessedPath) settles: response.ok, or not (fetchData goes on
\* to fetch(originalPath)), or a network error
PreprocessedResponds ==
  /\ \E r \in requests :
       /\ ~r.aborted
       /\ r.stage = "preprocessed"
       /\ \/ /\ requests' = (requests \ {r}) \cup
                  {[r EXCEPT !.stage = "json", !.usePreprocessed = TRUE]}
             /\ provHist' = [provHist EXCEPT !.step = "response", !.issued = FALSE,
                                             !.wrote = FALSE]
             /\ UNCHANGED <<provinceCache, provincePolygons, isLoading, error>>
          \/ /\ requests' = (requests \ {r}) \cup {[r EXCEPT !.stage = "original"]}
             /\ provHist' = [provHist EXCEPT !.step = "response", !.issued = TRUE,
                                             !.wrote = FALSE]
             /\ UNCHANGED <<provinceCache, provincePolygons, isLoading, error>>
          \/ Fail(r, "Failed to fetch")
  /\ UNCHANGED <<selectedProvince, abortControllerRef, effectCleanup>>
  /\ UNCHANGED notProvince

\* fetch(originalPath) settles: response.ok, or not (throw new Error), or a
\* network error
OriginalResponds ==
  /\ \E r \in requests :
       /\ ~r.aborted
       /\ r.stage = "original"
       /\ \/ /\ requests' = (requests \ {r}) \cup {[r EXCEPT !.stage = "json"]}
             /\ provHist' = [provHist EXCEPT !.step = "response", !.issued = FALSE,
                                             !.wrote = FALSE]
             /\ UNCHANGED <<provinceCache, provincePolygons, isLoading, error>>
          \/ Fail(r, "Failed to fetch: 404")
          \/ Fail(r, "Failed to fetch")
  /\ UNCHANGED <<selectedProvince, abortControllerRef, effectCleanup>>
  /\ UNCHANGED notProvince

\* response.json() settles and the features are converted: the polygons are
\* cached and set; or the JSON or its conversion throws
JsonSettles ==
  /\ \E r \in requests :
       /\ ~r.aborted
       /\ r.stage = "json"
       /\ \/ LET convertedPolygons == ProvinceData(r.province, r.usePreprocessed)
             IN  /\ provinceCache' =
                      provinceCacheSet(provinceCache, r.province, convertedPolygons)
                 /\ provincePolygons' = convertedPolygons
                 /\ isLoading' = FALSE
                 /\ requests' = requests \ {r}
                 /\ provHist' = [provHist EXCEPT !.step = "loaded",
                                                 !.issued = FALSE,
                                                 !.wrote = TRUE,
                                                 !.loaded = @ \cup {r.province},
                                                 !.succeeded =
                                                   IF r.province = provHist.selected
                                                   THEN TRUE ELSE @]
                 /\ UNCHANGED error
          \/ Fail(r, "TypeError")
  /\ UNCHANGED <<selectedProvince, abortControllerRef, effectCleanup>>
  /\ UNCHANGED notProvince

\* the await of an aborted run rejects with an AbortError: catch returns,
\* finally leaves isLoading
AbortSettles ==
  /\ \E r \in requests :
       /\ r.aborted
       /\ requests' = requests \ {r}
  /\ provHist' = [provHist EXCEPT !.step = "aborted", !.issued = FALSE,
                                  !.wrote = FALSE]
  /\ UNCHANGED <<selectedProvince, provinceCache, provincePolygons, isLoading,
                 error, abortControllerRef, effectCleanup>>
  /\ UNCHANGED notProvince

\* the page with a selected province goes and comes back: the cleanup runs,
\* the state of the new instance is the initial one, the cache of the
\* module stays
RemountPage ==
  /\ selectedProvince # NoProvince
  /\ selectedProvince' = NoProvince
  /\ provincePolygons' = <<>>
  /\ isLoading' = FALSE
  /\ error' = NoError
  /\ abortControllerRef' = 0
  /\ effectCleanup' = 0
  /\ requests' = Abort(requests, effectCleanup)
  /\ provHist' = [provHist EXCEPT !.step = "mount", !.issued = FALSE,
                                  !.wrote = FALSE, !.selected = NoProvince,
                                  !.succeeded = FALSE, !.before = <<>>]
  /\ UNCHANGED provinceCache
  /\ UNCHANGED notProvince

NextProvince ==
  \/ DeselectProvince
  \/ SelectCachedProvince
  \/ SelectProvince
  \/ PreprocessedResponds
  \/ OriginalResponds
  \/ JsonSettles
  \/ AbortSettles
  \/ RemountPage

SpecProvince == Init /\ [][NextProvince]_vars

\* ---- the pages
PageStep(step) == pageHist' = [step |-> step, clicked |-> NoFsa, was |-> NoFsa]

OnMap == route = "map"

OnSegments == route = "segments"

\* the LDU selection panel of MapFsaSelector is shown
LduPanelShown == OnMap /\ selectedFsaId # NoFsa /\ selectedLdus # {}

\* the router shows the other page: the state of the page left is lost, the
\* new page starts from its initial state and loads the stored segments
Navigate ==
  /\ route' = IF OnMap THEN "segments" ELSE "map"
  /\ provinceCode' = NoCode
  /\ selectedFsaId' = NoFsa
  /\ selectedLdus' = {}
  /\ form' = EmptyForm
  /\ PageStep("navigate")
  /\ UNCHANGED segments
  /\ UNCHANGED notPages

\* MapPage.handleSelectProvince, from the sidebar
handleSelectProvince ==
  /\ OnMap
  /\ \E code \in (ProvinceCodes \cup {NoCode}) \ {provinceCode} :
       provinceCode' = code
  /\ selectedFsaId' = NoFsa
  /\ selectedLdus' = {}
  /\ PageStep("province")
  /\ UNCHANGED <<route, form, segments>>
  /\ UNCHANGED notPages

\* newValue of FSAMap.handleSelectFsa
newValue(selected, fsaId) == IF selected = fsaId THEN selected ELSE fsaId

\* a click on a polygon of PolygonLayer or on a marker of ClusteredMarkers:
\* FSAMap.handleSelectFsa, then MapPage.handleSelectFsa.  With an FSA
\* selected only its polygons are displayed
ClickFsa ==
  /\ OnMap
  /\ \E fsaId \in (IF selectedFsaId = NoFsa THEN FsaIds(provinceCode)
                                            ELSE {selectedFsaId}) :
       /\ selectedFsaId' = newValue(selectedFsaId, fsaId)
       /\ pageHist' = [step |-> "click", clicked |-> fsaId, was |-> selectedFsaId]
  /\ selectedLdus' = {}
  /\ UNCHANGED <<route, provinceCode, form, segments>>
  /\ UNCHANGED notPages

\* MapFsaSelector.handleChange: an FSA is picked in the selector
handleChange ==
  /\ OnMap
  /\ \E value \in FsaIds(provinceCode) \ {selectedFsaId} : selectedFsaId' = value
  /\ selectedLdus' = {}
  /\ PageStep("change")
  /\ UNCHANGED <<route, provinceCode, form, segments>>
  /\ UNCHANGED notPages

\* MapFsaSelector.handleClear
handleClear ==
  /\ OnMap
  /\ selectedFsaId # NoFsa
  /\ selectedFsaId' = NoFsa
  /\ selectedLdus' = {}
  /\ PageStep("clear")
  /\ UNCHANGED <<route, provinceCode, form, segments>>
  /\ UNCHANGED notPages

\* LduLayer.handleMarkerClick of a group of the selected FSA
handleMarkerClick ==
  /\ OnMap
  /\ \E group \in LduGroups(selectedFsaId) :
       LET used == usedLdus(segments)
           availablePostalCodes == {postalCode \in group : postalCode \notin used}
           allSelected == availablePostalCodes \subseteq selectedLdus
       IN  /\ ~isGroupUsed(group, used)
           /\ availablePostalCodes # {}
           /\ selectedLdus' = IF allSelected
                              THEN selectedLdus \ availablePostalCodes
                              ELSE selectedLdus \cup availablePostalCodes
  /\ PageStep("marker")
  /\ UNCHANGED <<route, provinceCode, selectedFsaId, form, segments>>
  /\ UNCHANGED notPages

\* MapFsaSelector.handleLduChange: an option of the LDU selector of the panel
\* is added or removed; the options are the groups, none is disabled
handleLduChange ==
  /\ LduPanelShown
  /\ \E group \in LduGroups(selectedFsaId) :
       LET value == {g \in LduGroups(selectedFsaId) : g \cap selectedLdus # {}}
           values == IF group \in value THEN value \ {group}
                                        ELSE value \cup {group}
       IN  selectedLdus' = UNION values
  /\ PageStep("ldus")
  /\ UNCHANGED <<route, provinceCode, selectedFsaId, form, segments>>
  /\ UNCHANGED notPages

\* MapPage.handleCancelLduSelection, from the Cancel button of the panel
handleCancelLduSelection ==
  /\ LduPanelShown
  /\ selectedLdus' = {}
  /\ PageStep("cancel")
  /\ UNCHANGED <<route, provinceCode, selectedFsaId, form, segments>>
  /\ UNCHANGED notPages

\* useSegments.createSegments
createSegments(toAdd) == segments' = segments \o toAdd

\* MapFsaSelector.handleCreateSegment: the form of the panel is submitted
\* with a name and an operator
handleCreateSegment ==
  /\ LduPanelShown
  /\ provinceCode # NoCode
  /\ Len(segments) < MaxSegments
  /\ createSegments(<<[fsaId |-> selectedFsaId, ldus |-> selectedLdus]>>)
  /\ selectedLdus' = {}
  /\ PageStep("create")
  /\ UNCHANGED <<route, provinceCode, selectedFsaId, form>>
  /\ UNCHANGED notPages

\* CreateSegmentForm.handleProvinceChange
handleProvinceChange ==
  /\ OnSegments
  /\ \E value \in ProvinceCodes \ {form.selectedProvinceCode} :
       form' = [EmptyForm EXCEPT !.selectedProvinceCode = value]
  /\ PageStep("formProvince")
  /\ UNCHANGED <<route, provinceCode, selectedFsaId, selectedLdus, segments>>
  /\ UNCHANGED notPages

\* CreateSegmentForm.handleFsaChange: one new item
handleFsaChange ==
  /\ OnSegments
  /\ \E value \in FsaIds(form.selectedProvinceCode) \ {form.selectedFsaId} :
       form' = [form EXCEPT !.selectedFsaId = value,
                            !.segmentItems = <<NewItem({})>>]
  /\ PageStep("formFsa")
  /\ UNCHANGED <<route, provinceCode, selectedFsaId, selectedLdus, segments>>
  /\ UNCHANGED notPages

\* generateSegmentItems(count, fsaId, currentItems); the disabledValues of
\* the LduSelector of a new item are the ldus of the other items
RECURSIVE generateSegmentItems(_, _, _)
generateSegmentItems(count, currentItems, newItems) ==
  LET i == Len(newItems) + 1
  IN  IF i > count THEN newItems
      ELSE IF i <= Len(currentItems)
           THEN generateSegmentItems(count, currentItems,
                                     Append(newItems, currentItems[i]))
           ELSE generateSegmentItems(count, currentItems,
                  Append(newItems,
                         NewItem(UNION {currentItems[j].ldus :
                                          j \in 1..Len(currentItems)})))

\* CreateSegmentForm.handleAmountChange
handleAmountChange ==
  /\ OnSegments
  /\ form.selectedFsaId # NoFsa
  /\ \E value \in (1..MaxItems) \ {Len(form.segmentItems)} :
       form' = [form EXCEPT !.segmentItems =
                              generateSegmentItems(value, form.segmentItems, <<>>)]
  /\ PageStep("amount")
  /\ UNCHANGED <<route, provinceCode, selectedFsaId, selectedLdus, segments>>
  /\ UNCHANGED notPages

\* CreateSegmentForm.handleUpdateItem(id, "ldus", value): an option of the
\* LduSelector of an item is added, unless disabled, or removed
handleUpdateItemLdus ==
  /\ OnSegments
  /\ \E i \in 1..Len(form.segmentItems) :
       \E postalCode \in PostalCodes(form.selectedFsaId) :
         LET item == form.segmentItems[i]
         IN  /\ postalCode \in item.ldus \/ postalCode \notin item.disabled
             /\ form' = [form EXCEPT !.segmentItems[i].ldus =
                           IF postalCode \in item.ldus THEN item.ldus \ {postalCode}
                                               ELSE item.ldus \cup {postalCode}]
  /\ PageStep("itemLdus")
  /\ UNCHANGED <<route, provinceCode, selectedFsaId, selectedLdus, segments>>
  /\ UNCHANGED notPages

\* CreateSegmentForm.handleUpdateItem(id, "operatorId", value)
handleUpdateItemOperator ==
  /\ OnSegments
  /\ \E i \in 1..Len(form.segmentItems) :
       /\ ~form.segmentItems[i].hasOperator
       /\ form' = [form EXCEPT !.segmentItems[i].hasOperator = TRUE]
  /\ PageStep("itemOperator")
  /\ UNCHANGED <<route, provinceCode, selectedFsaId, selectedLdus, segments>>
  /\ UNCHANGED notPages

\* CreateSegmentForm.handleDeleteItem
handleDeleteItem ==
  /\ OnSegments
  /\ Len(form.segmentItems) > 1
  /\ \E i \in 1..Len(form.segmentItems) :
       form' = [form EXCEPT !.segmentItems = RemoveAt(@, i)]
  /\ PageStep("itemDelete")
  /\ UNCHANGED <<route, provinceCode, selectedFsaId, selectedLdus, segments>>
  /\ UNCHANGED notPages

\* CreateSegmentForm.handleSave
handleSave ==
  /\ OnSegments
  /\ form.selectedProvinceCode # NoCode
  /\ form.selectedFsaId # NoFsa
  /\ Len(form.segmentItems) # 0
  /\ \A i \in 1..Len(form.segmentItems) : form.segmentItems[i].hasOperator
  /\ Len(segments) + Len(form.segmentItems) <= MaxSegments
  /\ createSegments([i \in 1..Len(form.segmentItems) |->
                       [fsaId |-> form.selectedFsaId,
                        ldus |-> form.segmentItems[i].ldus]])
  /\ form' = EmptyForm
  /\ PageStep("save")
  /\ UNCHANGED <<route, provinceCode, selectedFsaId, selectedLdus>>
  /\ UNCHANGED notPages

\* useSegments.deleteSegment, from SegmentsList
deleteSegment ==
  /\ OnSegments
  /\ \E i \in 1..Len(segments) : segments' = RemoveAt(segments, i)
  /\ PageStep("delete")
  /\ UNCHANGED <<route, provinceCode, selectedFsaId, selectedLdus, form>>
  /\ UNCHANGED notPages

NextPages ==
  \/ Navigate
  \/ handleSelectProvince
  \/ ClickFsa
  \/ handleChange
  \/ handleClear
  \/ handleMarkerClick
  \/ handleLduChange
  \/ handleCancelLduSelection
  \/ handleCreateSegment
  \/ handleProvinceChange
  \/ handleFsaChange
  \/ handleAmountChange
  \/ handleUpdateItemLdus
  \/ handleUpdateItemOperator
  \/ handleDeleteItem
  \/ handleSave
  \/ deleteSegment

SpecPages == Init /\ [][NextPages]_vars

Next ==
  \/ NextSimplify \/ NextHull \/ NextCentroid \/ NextBounds
  \/ NextIntersect \/ NextFeatures \/ NextViewport \/ NextProvince
  \/ NextPages

Spec == Init /\ [][Next]_vars

(***************************************************************************)
(* Helpers of the properties.                                              *)
(***************************************************************************)
\* a is a subsequence of b: the points of a occur in b in the same order
RECURSIVE IsSubseq(_, _)
IsSubseq(a, b) ==
  IF a = <<>> THEN TRUE
  ELSE IF b = <<>> THEN FALSE
  ELSE IF Head(a) = Head(b) THEN IsSubseq(Tail(a), Tail(b))
  ELSE IsSubseq(a, Tail(b))

Called(f) == pc = "done" /\ fn = f

(***************************************************************************)
(* C1: for every polyline P and tolerance t > 0, simplifyLine(P, t) is a   *)
(* subsequence of P that starts with P's first point and ends with P's     *)
(* last point, and it is no longer than P.                                 *)
(***************************************************************************)
C1_SimplifySubsequence ==
  (Called("simplifyLine") /\ args.tolerance > 0) =>
     /\ IsSubseq(ret, args.points)
     /\ Len(ret) <= Len(args.points)
     /\ Len(args.points) > 0 =>
          /\ Len(ret) > 0
          /\ ret[1] = args.points[1]
          /\ ret[Len(ret)] = args.points[Len(args.points)]

\* a call on 4 distinct points that dropped one interior point and kept the
\* other
C1_Witness ==
  /\ Called("simplifyLine")
  /\ args.tolerance > 0
  /\ Len(args.points) = 4
  /\ Cardinality({args.points[i] : i \in 1..4}) = 4
  /\ Len(ret) = 3

(***************************************************************************)
(* C2 as stated: simplifyLine(P, 0) = P for every polyline P.              *)
(* simplifyLine drops the interior points whose distance from the chord is *)
(* exactly 0 (maxDistance > tolerance is strict), so this fails.           *)
(***************************************************************************)
C2_SimplifyLineZeroIdentity ==
  (Called("simplifyLine") /\ args.tolerance = 0) => ret = args.points

(***************************************************************************)
(* C2, amended: with tolerance <= 0 the ring processor does not call the   *)
(* simplifier and keeps every point of the ring, in order.                 *)
(***************************************************************************)
C2_ProcessRingZeroIdentity ==
  (Called("processRing") /\ args.tolerance <= 0) => ret = args.points

\* a ring processed with tolerance 0 that the simplifier would have shortened
C2_Witness ==
  /\ Called("processRing")
  /\ args.tolerance = 0
  /\ Cardinality({args.points[i] : i \in 1..Len(args.points)}) = Len(args.points)
  /\ simplifyLine(args.points, 0) # args.points
  /\ ret = args.points

(***************************************************************************)
(* Helpers of the hull properties.                                         *)
(***************************************************************************)
Range(s) == {s[i] : i \in 1..Len(s)}

\* twice the signed area of the triangle a, b, p (> 0: p is left of a -> b
\* with lat as the first axis)
Orient(a, b, p) ==
  (b.lat - a.lat) * (p.lng - a.lng) - (b.lng - a.lng) * (p.lat - a.lat)

\* p is on the closed segment a-b
OnSegment(a, b, p) ==
  /\ Orient(a, b, p) = 0
  /\ (p.lat - a.lat) * (p.lat - b.lat) <= 0
  /\ (p.lng - a.lng) * (p.lng - b.lng) <= 0

\* p lies on or inside the polygon whose vertices are the sequence h, taken
\* as a closed ring: p is on an edge, or on the same strict side of every
\* edge that has a length
Edges(h) == {<<h[i], h[(i % Len(h)) + 1]>> : i \in 1..Len(h)}

\* edges is Edges(h)
OnOrInside(edges, p) ==
  \/ \E e \in edges : OnSegment(e[1], e[2], p)
  \/ /\ \E e \in edges : e[1] # e[2]
     /\ \/ \A e \in edges : e[1] # e[2] => Orient(e[1], e[2], p) > 0
        \/ \A e \in edges : e[1] # e[2] => Orient(e[1], e[2], p) < 0

(***************************************************************************)
(* C3: every point calculateConvexHull(S) returns is a point of S, and     *)
(* every point of S lies on or inside the polygon of the returned hull.    *)
(***************************************************************************)
C3_HullSubsetAndCovers ==
  Called("calculateConvexHull") =>
     LET edges == Edges(ret)
     IN  /\ Range(ret) \subseteq Range(args.points)
         /\ \A p \in Range(args.points) : OnOrInside(edges, p)

\* a call whose input has a point strictly inside the hull and one on an edge
C3_Witness ==
  /\ Called("calculateConvexHull")
  /\ Len(args.points) >= 4
  /\ \E p \in Range(args.points) :
       /\ p \notin Range(ret)
       /\ \A e \in Edges(ret) : ~OnSegment(e[1], e[2], p)

(***************************************************************************)
(* C4: calculateConvexHull is idempotent, as a sequence, on every input    *)
(* (duplicates, collinear points, fewer than 3 points included).           *)
(***************************************************************************)
C4_HullIdempotent ==
  Called("calculateConvexHull") => calculateConvexHull(ret) = ret

\* a call that dropped a point and returned a triangle, which repeats its
\* first vertex: the hull handed back in has a duplicate point
C4_Witness ==
  /\ Called("calculateConvexHull")
  /\ Len(args.points) = 4
  /\ Range(ret) # Range(args.points)
  /\ Cardinality(Range(ret)) = 3
  /\ Len(ret) = 4

(***************************************************************************)
(* C5: for at least 3 input points no returned point lies on the segment   *)
(* strictly between two other returned points.                             *)
(***************************************************************************)
StrictlyBetween(a, b, p) == OnSegment(a, b, p) /\ p # a /\ p # b

C5_HullStrict ==
  (Called("calculateConvexHull") /\ Len(args.points) >= 3) =>
     LET hull == Range(ret)
     IN  \A a \in hull : \A b \in hull :
            a # b => \A p \in hull : ~StrictlyBetween(a, b, p)

\* a call whose input has a point strictly between two hull vertices
C5_Witness ==
  /\ Called("calculateConvexHull")
  /\ Len(args.points) >= 3
  /\ \E p \in Range(args.points) : \E a \in Range(ret) : \E b \in Range(ret) :
        StrictlyBetween(a, b, p)

(***************************************************************************)
(* Helpers of the centroid properties.                                     *)
(***************************************************************************)
\* the sum of the cross products of the ring (twice its signed area)
ShoelaceSum(ring) ==
  Shoelace(ring, 0, [signedArea |-> 0, centroidLat |-> 0, centroidLng |-> 0]).signedArea

\* twice the area of the triangle fan ring[1], ring[i], ring[i+1]: for a
\* convex polygon, twice its area
RECURSIVE Fan2(_, _)
Fan2(ring, i) ==
  IF i >= Len(ring) THEN 0
  ELSE Abs(Orient(ring[1], ring[i], ring[i + 1])) + Fan2(ring, i + 1)

\* the ring is a convex polygon with an interior: every edge has all the
\* vertices on its same (closed) side, and the area is not 0
ConvexRing(ring) ==
  /\ Len(ring) >= 3
  /\ Fan2(ring, 2) > 0
  /\ \E s \in {1, -1} :
        \A e \in Edges(ring) : \A v \in Range(ring) : s * Orient(e[1], e[2], v) >= 0

\* Orient(a, b, c) for a finite rational point c, times c.lat.d * c.lng.d > 0
OrientQ(a, b, c) ==
  (b.lat - a.lat) * (c.lng.n * c.lat.d - a.lng * c.lng.d * c.lat.d)
    - (b.lng - a.lng) * (c.lat.n * c.lng.d - a.lat * c.lat.d * c.lng.d)

StrictlyInside(ring, c) ==
  /\ IsFinite(c.lat)
  /\ IsFinite(c.lng)
  /\ \E s \in {1, -1} :
        \A e \in Edges(ring) : e[1] # e[2] => s * OrientQ(e[1], e[2], c) > 0

(***************************************************************************)
(* C6 as stated: for every ring of at least 3 vertices that forms a convex *)
(* polygon with an interior, calculateRingCentroid returns the polygon's   *)
(* area and a centroid strictly inside it.  A polygon whose area is below  *)
(* 1e-10 takes the fallback, which returns area 0.                         *)
(***************************************************************************)
C6_ConvexCentroidAnyArea ==
  (Called("calculateRingCentroid") /\ ConvexRing(args.ring)) =>
     /\ ret.area = Div(Fan2(args.ring, 2), 2)
     /\ StrictlyInside(args.ring, ret.centroid)

(***************************************************************************)
(* C6, amended: for every ring of at least 3 vertices that forms a convex  *)
(* polygon whose area is at least 1e-10, calculateRingCentroid returns the *)
(* polygon's area, whatever the winding, and a centroid strictly inside    *)
(* the polygon; the square ring [(0,0),(0,10),(10,10),(10,0)] yields the   *)
(* centroid (5,5) and the area 100.                                        *)
(***************************************************************************)
C6_ConvexCentroid ==
  (/\ Called("calculateRingCentroid")
   /\ ConvexRing(args.ring)
   /\ ~AreaBelowEps(Fan2(args.ring, 2), args.scale)) =>
     /\ ret.area = Div(Fan2(args.ring, 2), 2)
     /\ StrictlyInside(args.ring, ret.centroid)
     /\ (args.ring = SquareRing /\ args.scale = 1) =>
          /\ ret.centroid = [lat |-> Num(5), lng |-> Num(5)]
          /\ ret.area = Num(100)

\* a convex quadrilateral of the fine grid, wound so that signedArea < 0
C6_Witness ==
  /\ Called("calculateRingCentroid")
  /\ args.scale = EpsRootInv
  /\ Len(args.ring) = 4
  /\ Cardinality(Range(args.ring)) = 4
  /\ ConvexRing(args.ring)
  /\ ShoelaceSum(args.ring) < 0
  /\ ~AreaBelowEps(Fan2(args.ring, 2), args.scale)
  /\ ret.area = Div(Fan2(args.ring, 2), 2)

(***************************************************************************)
(* C7: for every ring with fewer than 3 points or with area below 1e-10,   *)
(* calculateRingCentroid returns finite coordinates (no NaN, no Infinity): *)
(* the arithmetic mean of the ring's points, with area 0.                  *)
(***************************************************************************)
C7_DegenerateTotal ==
  (/\ Called("calculateRingCentroid")
   /\ \/ Len(args.ring) < 3
      \/ AreaBelowEps(Abs(ShoelaceSum(args.ring)), args.scale)) =>
     /\ IsFinite(ret.centroid.lat)
     /\ IsFinite(ret.centroid.lng)
     /\ ret.centroid.lat.n * Len(args.ring) = SumLat(args.ring) * ret.centroid.lat.d
     /\ ret.centroid.lng.n * Len(args.ring) = SumLng(args.ring) * ret.centroid.lng.d
     /\ ret.area = Num(0)

(***************************************************************************)
(* C8: calculatePolygonCenter returns the centroid of the ring with the    *)
(* largest area, the first such ring in ring order on ties, whatever the   *)
(* position of the rings in the list.                                      *)
(***************************************************************************)
C8_CenterOfLargestRing ==
  (Called("calculatePolygonCenter") /\ Len(args.coordinates) > 0) =>
     LET rc(i) == calculateRingCentroid(args.coordinates[i], args.scale)
         n == Len(args.coordinates)
     IN  \E i \in 1..n :
            /\ ret = rc(i).centroid
            /\ \A j \in 1..n : ~RatGt(rc(j).area, rc(i).area)
            /\ \A j \in 1..(i - 1) : RatGt(rc(i).area, rc(j).area)

\* a smaller ring comes first, two rings of the largest area follow and have
\* different centroids
C8_Witness ==
  /\ Called("calculatePolygonCenter")
  /\ Len(args.coordinates) = 3
  /\ LET rc(i) == calculateRingCentroid(args.coordinates[i], args.scale)
     IN  /\ RatGt(rc(1).area, Num(0))
         /\ RatGt(rc(2).area, rc(1).area)
         /\ rc(3).area = rc(2).area
         /\ rc(3).centroid # rc(2).centroid
         /\ ret = rc(2).centroid

(***************************************************************************)
(* C9: bounds computed over an empty point set are the no-bounds result    *)
(* (null), never a box, for calculateBounds and for calculatePolygonBounds.*)
(***************************************************************************)
CalledBounds == Called("calculateBounds") \/ Called("calculatePolygonBounds")

C9_EmptyBoundsNull ==
  (CalledBounds /\ args.points = <<>>) => IsNull(ret)

(***************************************************************************)
(* C10: a bounding box computed from at least one point has north >= south *)
(* and east >= west and contains every input point; when every point has   *)
(* lat in -90..90 and lng in -180..180, north, south, east and west are    *)
(* the maximum lat, minimum lat, maximum lng and minimum lng.              *)
(***************************************************************************)
InRange(p) ==
  /\ SeedNorth <= p.lat /\ p.lat <= SeedSouth
  /\ SeedEast <= p.lng /\ p.lng <= SeedWest

C10_BoundsBox ==
  (CalledBounds /\ args.points # <<>>) =>
     LET P == Range(args.points)
     IN  /\ ~IsNull(ret)
         /\ ret.north >= ret.south
         /\ ret.east >= ret.west
         /\ \A p \in P : /\ ret.south <= p.lat /\ p.lat <= ret.north
                         /\ ret.west <= p.lng /\ p.lng <= ret.east
         /\ (\A p \in P : InRange(p)) =>
              /\ \E p \in P : ret.north = p.lat
              /\ \E p \in P : ret.south = p.lat
              /\ \E p \in P : ret.east = p.lng
              /\ \E p \in P : ret.west = p.lng

\* a box of calculatePolygonBounds over a MultiPolygon with 2 points in range
C10_Witness ==
  /\ Called("calculatePolygonBounds")
  /\ args.polygon.isMultiPolygon
  /\ Cardinality(Range(args.points)) = 2
  /\ \A p \in Range(args.points) : InRange(p)
  /\ ret.north > ret.south

(***************************************************************************)
(* C11.  boundsIntersect(a, b) is false exactly when a.south > b.north or  *)
(* a.north < b.south or a.west > b.east or a.east < b.west, so boxes that  *)
(* only touch on an edge or a corner intersect; and it is symmetric:       *)
(* boundsIntersect(a, b) = boundsIntersect(b, a) for every pair of boxes.  *)
(***************************************************************************)
C11_IntersectSymmetric ==
  Called("boundsIntersect") =>
     LET a == args.boxes[1]
         b == args.boxes[2]
     IN  /\ ret.ab = FALSE <=> \/ a.south > b.north
                               \/ a.north < b.south
                               \/ a.west > b.east
                               \/ a.east < b.west
         /\ ret.ab = ret.ba

\* two proper boxes that share one corner only, and intersect
C11_Witness ==
  /\ Called("boundsIntersect")
  /\ LET a == args.boxes[1]
         b == args.boxes[2]
     IN  /\ a.south < a.north /\ a.west < a.east
         /\ b.south < b.north /\ b.west < b.east
         /\ a.south = b.north /\ a.west = b.east
         /\ ret.ab

(***************************************************************************)
(* Helpers of the properties of useViewportPolygons.                       *)
(***************************************************************************)
\* the polygons of the latest render
Shown == Range(visiblePolygons)

\* every edge of box a lies within box v
Inside(a, v) ==
  /\ v.south <= a.south /\ a.south <= v.north
  /\ v.south <= a.north /\ a.north <= v.north
  /\ v.west <= a.west /\ a.west <= v.east
  /\ v.west <= a.east /\ a.east <= v.east

(***************************************************************************)
(* C12, as stated.  With V the viewport the map reported (map.getBounds()) *)
(* when mapBounds was computed: a polygon whose bounding box is entirely   *)
(* north of V.north is never in visiblePolygons, and a polygon whose box   *)
(* is entirely inside V always is.                                         *)
(***************************************************************************)
C12_CulledByViewport ==
  ~IsNull(mapBounds) =>
     LET V == hist.queried
     IN  \A p \in Range(polygonsWithBounds(polygonSet)) :
           /\ p.bounds.south > V.north => p \notin Shown
           /\ Inside(p.bounds, V) => p \in Shown

(***************************************************************************)
(* C12, amended.  The query box is V grown by viewportPadding: a polygon   *)
(* whose bounding box is entirely north of V.north + viewportPadding is    *)
(* never in visiblePolygons, and a polygon whose box is entirely inside V  *)
(* always is.                                                              *)
(***************************************************************************)
C12_CulledByPaddedViewport ==
  ~IsNull(mapBounds) =>
     LET V == hist.queried
     IN  \A p \in Range(polygonsWithBounds(polygonSet)) :
           /\ p.bounds.south > V.north + viewportPadding => p \notin Shown
           /\ Inside(p.bounds, V) => p \in Shown

\* a padded viewport with a polygon inside it (shown), a polygon in the
\* padding north of it (shown) and a polygon north of the padding (culled)
C12_Witness ==
  /\ ~IsNull(mapBounds)
  /\ viewportPadding > 0
  /\ LET V == hist.queried
         P == Range(polygonsWithBounds(polygonSet))
     IN  /\ \E p \in P : Inside(p.bounds, V) /\ p \in Shown
         /\ \E p \in P : /\ p.bounds.south > V.north
                         /\ p.bounds.south <= V.north + viewportPadding
                         /\ p \in Shown
         /\ \E p \in P : /\ p.bounds.south > V.north + viewportPadding
                         /\ p \notin Shown

(***************************************************************************)
(* C13.  Whenever mapBounds is null, visiblePolygons is the whole polygon  *)
(* set with its bounds: every polygon is visible, never none.              *)
(***************************************************************************)
C13_NullBoundsShowAll ==
  (mounted /\ IsNull(mapBounds)) =>
     visiblePolygons = polygonsWithBounds(polygonSet)

\* no mapBounds while the map shows a viewport that misses some polygon of
\* the set: all three polygons are visible
C13_Witness ==
  /\ mounted
  /\ IsNull(mapBounds)
  /\ ~IsNull(viewport)
  /\ Len(visiblePolygons) = 3
  /\ \E p \in Shown : ~boundsIntersect(p.bounds, PaddedBounds(viewport, viewportPadding))

(***************************************************************************)
(* C18, as stated.  After the polygon set changed, the new polygons are    *)
(* never filtered by a mapBounds computed before the change: as long as    *)
(* mapBounds dates from before the change, visiblePolygons is the whole    *)
(* new set (so it is not empty because the new polygons miss the old       *)
(* bounds).                                                                *)
(***************************************************************************)
C18_ResetOnChange ==
  hist.stale => visiblePolygons = polygonsWithBounds(polygonSet)

(***************************************************************************)
(* C19, as stated.  mapBounds is recomputed only when debounceMs has       *)
(* passed since the last bounds_changed event; at most one debounce timer  *)
(* is pending, and it is the one debounceRef holds; between two events     *)
(* there is at most one update; no update runs and none is pending once    *)
(* the listener effect is cleaned up.                                      *)
(***************************************************************************)
C19_Debounced ==
  /\ Cardinality(timers) <= 1
  /\ \A t \in timers : t.id = debounceRef
  /\ hist.step \in {"debounce", "initial"} => hist.sinceEvent = DebounceTicks
  /\ hist.updates <= 1
  /\ hist.step \in {"debounce", "initial", "returned"} => listenerRef
  /\ ~listenerRef => timers = {} /\ "initialUpdate" \notin idle

(***************************************************************************)
(* C19, amended.  Apart from the initial update the listener effect asks   *)
(* for when it starts (an idle callback, not debounced): mapBounds is      *)
(* recomputed by the debounce timer only when debounceMs has passed since  *)
(* the last bounds_changed event; at most one debounce timer is pending,   *)
(* and it is the one debounceRef holds; between two events the timer       *)
(* updates at most once; no update runs and none is pending once the       *)
(* listener effect is cleaned up.                                          *)
(***************************************************************************)
C19_DebouncedEvents ==
  /\ Cardinality(timers) <= 1
  /\ \A t \in timers : t.id = debounceRef
  /\ hist.step = "debounce" => hist.sinceEvent = DebounceTicks
  /\ hist.debounced <= 1
  /\ hist.step \in {"debounce", "initial", "returned"} => listenerRef
  /\ ~listenerRef => timers = {} /\ "initialUpdate" \notin idle

\* the debounce timer has just recomputed mapBounds, after the initial
\* update had already run since the last event
C19_Witness ==
  /\ hist.step = "debounce"
  /\ hist.updates = 2
  /\ hist.debounced = 1
  /\ ~IsNull(mapBounds)
  /\ ~isUpdating

(***************************************************************************)
(* Helpers of the properties of the processor and the converters.          *)
(***************************************************************************)
\* ring.map(proj4), the whole ring converted
Converted(ring) == [i \in 1..Len(ring) |-> proj4(ring[i])]

\* what C16 asks of an output ring
RingProcessed(out, ring, tolerance) ==
  /\ out = Converted(IF tolerance > 0 THEN simplifyLine(ring, tolerance) ELSE ring)
  /\ IsSubseq(out, Converted(ring))
  /\ tolerance <= 0 => Len(out) = Len(ring)

\* the same of the rings of a polygon
PolygonProcessed(out, coordinates, tolerance) ==
  /\ Len(out) = Len(coordinates)
  /\ \A r \in 1..Len(coordinates) : RingProcessed(out[r], coordinates[r], tolerance)

(***************************************************************************)
(* C14.  processFeature returns a feature whose geometry type is neither   *)
(* Polygon nor MultiPolygon unchanged, and without an error: processing a  *)
(* feature list gives one output feature per input feature, in the order   *)
(* of the input (same properties, same geometry type).                     *)
(***************************************************************************)
C14_UnsupportedUnchanged ==
  Called("processGeoJSON") =>
     /\ Len(ret) = Len(args.features)
     /\ \A i \in 1..Len(args.features) :
          /\ ret[i].properties = args.features[i].properties
          /\ ret[i].geometry.type = args.features[i].geometry.type
          /\ ~Supported(args.features[i]) => ret[i] = args.features[i]

\* a Point between two polygons with a ring each
C14_Witness ==
  /\ Called("processGeoJSON")
  /\ Len(args.features) = 3
  /\ Supported(args.features[1])
  /\ args.features[1].geometry.coordinates # <<>>
  /\ args.features[2].geometry.type = "Point"
  /\ Supported(args.features[3])
  /\ ret[2] = args.features[2]
  /\ ret[3].properties = 3

(***************************************************************************)
(* C15, as stated.  convertAllFeatures and convertPreprocessedFeatures, on *)
(* a feature list with features of unsupported geometry types, do not      *)
(* throw and give one polygon per feature, in the order of the input:      *)
(* no feature is dropped, every Polygon and MultiPolygon is converted.     *)
(***************************************************************************)
C15_ConvertsHeterogeneous ==
  (/\ Called("convertAllFeatures") \/ Called("convertPreprocessedFeatures")
   /\ \A i \in 1..Len(args.features) :
        args.features[i].geometry.type = "MultiPolygon" =>
          args.features[i].geometry.coordinates # <<>>)
  => /\ ~Throws(ret)
     /\ Len(ret.value) = Len(args.features)
     /\ \A i \in 1..Len(args.features) :
          ret.value[i].id = args.features[i].properties

(***************************************************************************)
(* C16.  For every Polygon and MultiPolygon feature and every tolerance t, *)
(* the processed geometry has as many polygons and rings, in the same      *)
(* order, and each output ring is the conversion, point by point, of       *)
(* simplifyLine(ring, t) when t > 0 and of the whole ring when t <= 0; the *)
(* points that survive keep their order.                                   *)
(***************************************************************************)
C16_SimplifyThenConvert ==
  Called("processGeoJSON") =>
     \A i \in 1..Len(args.features) :
        LET in == args.features[i].geometry
            out == ret[i].geometry
        IN  /\ in.type = "Polygon" =>
                 PolygonProcessed(out.coordinates, in.coordinates, args.tolerance)
            /\ in.type = "MultiPolygon" =>
                 /\ Len(out.coordinates) = Len(in.coordinates)
                 /\ \A k \in 1..Len(in.coordinates) :
                      PolygonProcessed(out.coordinates[k], in.coordinates[k],
                                       args.tolerance)

\* a MultiPolygon with a ring of 3 positions, simplified to its 2 ends
\* although the converted middle position is farther than the tolerance
\* from the line of the converted ends
C16_Witness ==
  /\ Called("processGeoJSON")
  /\ args.tolerance > 0
  /\ Len(args.features) = 1
  /\ args.features[1].geometry.type = "MultiPolygon"
  /\ Len(args.features[1].geometry.coordinates) = 1
  /\ Len(args.features[1].geometry.coordinates[1]) = 1
  /\ LET ring == args.features[1].geometry.coordinates[1][1]
         out == ret[1].geometry.coordinates[1][1]
     IN  /\ Len(ring) = 3
         /\ out = <<proj4(ring[1]), proj4(ring[3])>>
         /\ simplifyLine(Converted(ring), args.tolerance) = Converted(ring)

Superseded(r) == r.id # effectCleanup

\* the run r of fetchData ends in this step
Settles(r) == \A q \in requests' : q.id # r.id

\* polygons holds the data of province
HoldsDataOf(province) ==
  \E usePreprocessed \in BOOLEAN :
    provincePolygons = ProvinceData(province, usePreprocessed)

(***************************************************************************)
(* C21.  Every run of fetchData that a later change of the province has    *)
(* superseded is aborted, and the step in which such a run ends leaves     *)
(* polygons as it was; once no run is in flight, polygons holds the data   *)
(* of the province selected last if its load succeeded.                    *)
(***************************************************************************)
C21_SupersededNeverUpdates ==
  /\ [](\A r \in requests : Superseded(r) => r.aborted)
  /\ [][\A r \in requests :
          (Superseded(r) /\ Settles(r)) => provincePolygons' = provincePolygons]_vars
  /\ []((requests = {} /\ provHist.selected # NoProvince /\ provHist.succeeded)
          => HoldsDataOf(provHist.selected))

\* two provinces were selected one after the other, the second one has been
\* loaded from the network and the aborted run of the first has ended last
C21_Witness ==
  /\ provHist.step = "aborted"
  /\ requests = {}
  /\ provHist.succeeded
  /\ selectedProvince = provHist.selected
  /\ HoldsDataOf(selectedProvince)
  /\ Cardinality(provinceCache) = 1

\* the messages of the errors that fetchData catches
FailureMessages == {"Failed to fetch", "Failed to fetch: 404", "TypeError"}

(***************************************************************************)
(* C22.  The step that ends a run of fetchData with an error other than an *)
(* AbortError, the step that ends an aborted run and the deselection of    *)
(* the province leave polygons as it was; after a failure, error is the    *)
(* message of the failure and polygons is what it was when the run         *)
(* started.                                                                *)
(***************************************************************************)
C22_FailureKeepsPolygons ==
  /\ [][provHist'.step \in {"failed", "aborted", "deselect"}
          => provincePolygons' = provincePolygons]_vars
  /\ [](provHist.step = "failed" =>
          /\ error \in FailureMessages
          /\ provincePolygons = provHist.before)

\* a province is loaded and shown, the load of another one fails
C22_Witness ==
  /\ provHist.step = "failed"
  /\ error = "Failed to fetch: 404"
  /\ selectedProvince \in Provinces
  /\ \E province \in Provinces \ {selectedProvince} : HoldsDataOf(province)

(***************************************************************************)
(* C29.  isLoading is true only while a run of fetchData for the selected  *)
(* province is in flight and not aborted.                                  *)
(***************************************************************************)
C29_LoadingOnlyInFlight ==
  isLoading =>
    \E r \in requests : ~r.aborted /\ r.province = selectedProvince

\* the postal codes that the stored segments i and j share
SharedLdus(i, j) == segments[i].ldus \cap segments[j].ldus

(***************************************************************************)
(* C23.  No postal code is in the ldus of two stored segments.             *)
(***************************************************************************)
C23_LduInOneSegment ==
  \A i, j \in 1..Len(segments) : i # j => SharedLdus(i, j) = {}

(***************************************************************************)
(* C24.  After a click on an FSA of the map, selectedFsaId is null if the  *)
(* FSA clicked was the selected one, and the FSA clicked otherwise.        *)
(***************************************************************************)
C24_ClickToggles ==
  pageHist.step = "click" =>
    selectedFsaId = IF pageHist.was = pageHist.clicked THEN NoFsa
                                                       ELSE pageHist.clicked

\* the elements of s at the indices of the set K, in order
RECURSIVE AtIndices(_, _)
AtIndices(s, K) ==
  IF K = {} THEN <<>>
  ELSE LET k == CHOOSE i \in K : \A j \in K : i <= j
       IN  <<s[k]>> \o AtIndices(s, K \ {k})

\* a and b are consecutive in the set of indices K
Consecutive(K, a, b) ==
  a \in K /\ b \in K /\ a < b /\ \A k \in K : ~(a < k /\ k < b)

\* the first interior index of points at the greatest distance from the
\* chord of its first and last point
FarthestIndex(points) ==
  LET n == Len(points)
      dist(i) == perpendicularDistance(points[i], points[1], points[n])
      farther(a, b) == a.n * b.d > b.n * a.d
  IN  CHOOSE m \in 2..(n - 1) :
        /\ \A i \in 2..(n - 1) : ~farther(dist(i), dist(m))
        /\ \A i \in 2..(m - 1) : farther(dist(m), dist(i))

\* the distance whose square is the rational dist is at most the tolerance
\* t > 0
WithinTolerance(dist, t) == dist.n <= t * t * dist.d

\* K is a set of indices of points that simplifyLine may have retained for
\* the result kept: with the ends, every dropped point within the tolerance
\* of the line through its two retained neighbours, and the farthest point
\* from the chord retained if it is farther than the tolerance
RetainedWithin(points, tolerance, kept, K) ==
  LET n == Len(points)
  IN  /\ n > 0 => (1 \in K /\ n \in K)
      /\ kept = AtIndices(points, K)
      /\ \A a, b \in K :
           Consecutive(K, a, b) =>
             \A k \in (a + 1)..(b - 1) :
               WithinTolerance(
                 perpendicularDistance(points[k], points[a], points[b]), tolerance)
      /\ n > 2 =>
           LET m == FarthestIndex(points)
           IN  WithinTolerance(
                 perpendicularDistance(points[m], points[1], points[n]), tolerance)
               \/ m \in K

(***************************************************************************)
(* C25.  For a tolerance t > 0, the points that simplifyLine drops lie     *)
(* within distance t of the line through the two retained points next to   *)
(* them (of that point when the two coincide), and the first point at the  *)
(* greatest distance from the chord of the polyline is retained when that  *)
(* distance exceeds t.                                                     *)
(***************************************************************************)
C25_DroppedWithinTolerance ==
  (Called("simplifyLine") /\ args.tolerance > 0) =>
     \E K \in SUBSET (1..Len(args.points)) :
        RetainedWithin(args.points, args.tolerance, ret, K)

\* a call on 4 points whose ends coincide: one interior point is farther
\* than the tolerance from them and is kept, the other is dropped
C25_Witness ==
  /\ Called("simplifyLine")
  /\ args.tolerance > 0
  /\ Len(args.points) = 4
  /\ args.points[1] = args.points[4]
  /\ Len(ret) = 3
  /\ \E i \in 2..3 : args.points[i] \notin {ret[j] : j \in 1..3}

\* the number of invocations of simplifyLine that one call makes, itself
\* included
RECURSIVE Invocations(_, _)
Invocations(points, tolerance) ==
  IF Len(points) <= 2 THEN 1
  ELSE LET m == ScanMax(points, 1, ZeroDist, 0)
       IN  IF DistGtTol(m.maxDistance, tolerance)
           THEN 1 + Invocations(Slice(points, 0, m.maxIndex + 1), tolerance)
                  + Invocations(Slice(points, m.maxIndex, Len(points)), tolerance)
           ELSE 1

\* simplifyLine(points, tolerance) recurses
Recurses(points, tolerance) ==
  /\ Len(points) > 2
  /\ DistGtTol(ScanMax(points, 1, ZeroDist, 0).maxDistance, tolerance)

(***************************************************************************)
(* C26.  processRing does not hand a ring to simplifyLine unless the       *)
(* tolerance is > 0.  When simplifyLine recurses with such a tolerance,    *)
(* the split index is strictly between the first and the last index, both  *)
(* sub-chains are shorter than the input, and a call on n >= 2 points      *)
(* makes at most 2n - 3 invocations in all.                                *)
(***************************************************************************)
C26_SimplifyTerminates ==
  /\ (Called("processRing") /\ args.tolerance <= 0) => ret = args.points
  /\ (Called("simplifyLine") /\ args.tolerance > 0) =>
       LET points == args.points
           n == Len(points)
           maxIndex == ScanMax(points, 1, ZeroDist, 0).maxIndex
       IN  /\ Recurses(points, args.tolerance) =>
                /\ 0 < maxIndex /\ maxIndex < n - 1
                /\ Len(Slice(points, 0, maxIndex + 1)) < n
                /\ Len(Slice(points, maxIndex, n)) < n
           /\ n >= 2 => Invocations(points, args.tolerance) <= 2 * n - 3

\* a call on 4 points that recursed twice: 5 invocations, the most that 4
\* points allow
C26_Witness ==
  /\ Called("simplifyLine")
  /\ args.tolerance > 0
  /\ Len(args.points) = 4
  /\ Recurses(args.points, args.tolerance)
  /\ Invocations(args.points, args.tolerance) = 5

\* the smallest of the points in (lat, then lng) order
Smallest(points) ==
  CHOOSE p \in Range(points) : \A q \in Range(points) : Compare(p, q) <= 0

(***************************************************************************)
(* C27.  For at least 3 input points the list that calculateConvexHull     *)
(* returns starts and ends with the smallest input point in (lat, then     *)
(* lng) order, and the array passed in holds after the call what it held   *)
(* before.                                                                 *)
(***************************************************************************)
C27_HullClosedRing ==
  (Called("calculateConvexHull") /\ Len(args.given) >= 3) =>
     /\ Len(ret) >= 2
     /\ ret[1] = Smallest(args.given)
     /\ ret[Len(ret)] = Smallest(args.given)
     /\ args.points = args.given

\* a call on 4 points, not passed in sorted order and the smallest not
\* first, that returned a triangle with its start vertex repeated
C27_Witness ==
  /\ Called("calculateConvexHull")
  /\ Len(args.given) = 4
  /\ args.given # SortPoints(args.given)
  /\ args.given[1] # Smallest(args.given)
  /\ Len(ret) = 4
  /\ ret[1] = ret[4]
  /\ Cardinality(Range(ret)) = 3

\* the ring started k vertices later
Rotate(ring, k) == SubSeq(ring, k + 1, Len(ring)) \o SubSeq(ring, 1, k)

\* the ring has at least 3 distinct vertices and an area of at least 1e-10
ProperRing(ring, scale) ==
  /\ Cardinality(Range(ring)) >= 3
  /\ ~AreaBelowEps(Abs(ShoelaceSum(ring)), scale)

(***************************************************************************)
(* C28.  For a ring with at least 3 distinct vertices and an area of at    *)
(* least 1e-10, calculateRingCentroid returns the same centroid and area   *)
(* for the ring with its first point repeated at the end, without its last *)
(* point when that repeats the first, reversed, and rotated to start at    *)
(* any other vertex.                                                       *)
(***************************************************************************)
C28_ClosureIsLogical ==
  (Called("calculateRingCentroid") /\ ProperRing(args.ring, args.scale)) =>
     LET ring == args.ring
         n == Len(ring)
     IN  /\ ret = calculateRingCentroid(Append(ring, ring[1]), args.scale)
         /\ ring[1] = ring[n] =>
              ret = calculateRingCentroid(DropLast(ring), args.scale)
         /\ ret = calculateRingCentroid(Reverse(ring), args.scale)
         /\ \A k \in 1..(n - 1) :
              ret = calculateRingCentroid(Rotate(ring, k), args.scale)

\* a call on a ring of 3 distinct vertices that repeats its first point as
\* its last, with an area above the threshold and a centroid off the grid
C28_Witness ==
  /\ Called("calculateRingCentroid")
  /\ ProperRing(args.ring, args.scale)
  /\ Len(args.ring) = 4
  /\ args.ring[1] = args.ring[4]
  /\ Cardinality(Range(args.ring)) = 3
  /\ ret.area = Div(1, 2)
  /\ ret.centroid.lat.d = 3

(***************************************************************************)
(* C30.  isUpdating is true only while a debounced bounds update is        *)
(* pending: whenever isUpdating is true, the timer debounceRef holds is    *)
(* still to fire, so that the event that set it is followed by the update  *)
(* that sets it back to false.                                             *)
(***************************************************************************)
C30_UpdatingOnlyWhilePending ==
  isUpdating => \E t \in timers : t.id = debounceRef

====
